---- MODULE Spec2Model ----
(***************************************************************************)
(* invoice-ai backend: the approval workflow (app/workflow/approval.py),   *)
(* the vendor ledger (app/validation/fraud_detection.py) and the persist   *)
(* steps of the upload pipeline (app/main.py), over the tables of          *)
(* app/database/models.py.                                                 *)
(***************************************************************************)
EXTENDS Integers, Sequences, FiniteSets, TLC

(***************************************************************************)
(* Values                                                                  *)
(***************************************************************************)
\* Python None / SQL NULL in a numeric or timestamp column.
NULL == -1
\* Python None / SQL NULL in a string column.
None == "None"

\* Python truthiness of an Optional[float]: None and 0 are both falsy.
Truthy(x) == x # NULL /\ x # 0
\* Python truthiness of an Optional[str]: None and "" are both falsy.
TruthyStr(x) == x # None /\ x # ""

Max(a, b) == IF a >= b THEN a ELSE b

\* db.commit() on a loaded and then modified object: the UPDATE sets the
\* columns whose value was changed on the object, and no other column of the
\* stored row.
flush(stored, loaded, assigned) ==
    [f \in DOMAIN stored |->
        IF assigned[f] # loaded[f] THEN assigned[f] ELSE stored[f]]

(***************************************************************************)
(* Bounds of the model                                                     *)
(***************************************************************************)
\* rows the invoice_approvals table may hold
MaxApprovals == 1
\* requests served at the same time
NumCallers == 2
\* update_vendor_score calls made on the ledger alone
MaxLedgerCalls == 3
\* invoices uploaded
MaxUploads == 2
\* update_vendor_score calls for one vendor, one after the other
MaxVendorInvoices == 21
\* days that pass
MaxDays == 181
\* invoices of one amount uploaded one after the other
MaxRepeatedUploads == 4
\* flags and warnings added to one FraudDetectionResult
MaxFindings == 4
\* invoices uploaded one after the other
MaxSequentialUploads == 3
\* largest value of the wall clock (datetime.utcnow())
MaxTime == 1

(***************************************************************************)
(* Inputs                                                                  *)
(***************************************************************************)
Amounts == {NULL, 0, 50000, 50001, 100000, 120000}
FraudScores == {NULL, 0, 39, 40, 69, 70}
InvoiceIds == {"INV-1"}
Vendors == {"Acme"}
Countries == {"russia"}
Names == {"alice", "bob"}
\* the amount argument of update_vendor_score
LedgerAmounts == {NULL, 100}
\* what parse_invoice can extract from an uploaded file
Dates == {0}
Descriptions == {"Steel Coils"}
UnitPrices == {100}
LineItems ==
    [description : Descriptions, hs_code : {None}, unit_price : UnitPrices]
UploadedInvoices ==
    [invoice_id    : {None, "INV-1"},
     invoice_date  : Dates,
     customer_name : {None, "Acme"},
     total_amount  : {NULL, 120000},
     line_items    : {<<>>} \cup {<<item>> : item \in LineItems}]
Filenames == {"a.pdf"}
\* invoices of one amount and one date, with and without a vendor
RepeatedInvoices ==
    [invoice_id    : {None},
     invoice_date  : Dates,
     customer_name : {None, "Acme"},
     total_amount  : {120000},
     line_items    : {<<>>}]
\* uploaded invoices that differ in their line items: no item, one item
\* with a missing, zero, negative or positive unit price, two items
PricedLineItems ==
    {<<>>}
    \cup {<<[description |-> "Steel Coils", hs_code |-> None, unit_price |-> u]>> :
            u \in {NULL, 0, -5, 100}}
    \cup {<<[description |-> "Steel Coils", hs_code |-> None, unit_price |-> 100],
            [description |-> "Steel Coils", hs_code |-> None, unit_price |-> u]>> :
            u \in {0, 400}}
PricedInvoices ==
    [invoice_id    : {None},
     invoice_date  : Dates,
     customer_name : {None, "Acme"},
     total_amount  : {120000},
     line_items    : PricedLineItems]
Comments == {None}
Reasons == {None, "", "bad"}
Levels == 1..3
\* the levels set_approver_email is called with (4 is no key of APPROVERS)
ApproverLevels == {2, 4}

(***************************************************************************)
(* Configuration of approval.py                                            *)
(***************************************************************************)
APPROVAL_LEVELS ==
    [l \in Levels |->
        CASE l = 1 -> [name |-> "Manager", threshold |-> 0]
          [] l = 2 -> [name |-> "Finance", threshold |-> 50000]
          [] l = 3 -> [name |-> "Compliance", threshold |-> 100000]]

\* APPROVERS as the module is loaded
DefaultApprovers ==
    [l \in Levels |->
        CASE l = 1 -> [name |-> "Manager", email |-> "manager@company.com"]
          [] l = 2 -> [name |-> "Finance Head", email |-> "finance@company.com"]
          [] l = 3 -> [name |-> "Compliance Officer", email |-> "compliance@company.com"]]

\* the contacts set_approver_email is called with
Contacts == {[name |-> "Dana", email |-> "dana@company.com"]}

VARIABLES
    approvals,      \* table invoice_approvals: row id = index
    APPROVERS,      \* approval.APPROVERS (process-wide, mutable)
    email_enabled,  \* approval.EMAIL_CONFIG["enabled"]
    attempts,       \* number of calls of send_approval_notification so far
    last_attempt,   \* the most recent call of send_approval_notification
    clock,          \* datetime.utcnow()
    result,         \* what the last handler returned
    sess,           \* concurrent requests: where each one is in its handler,
                    \* and the objects its own Session has loaded
    history,        \* the successful returns of the concurrent requests, in order
    vendor_scores,      \* table vendor_scores: row id = index
    price_history,      \* table price_history
    invoice_line_items, \* table invoice_line_items
    invoices,           \* table invoices
    ledger_calls,       \* per vendor, the update_vendor_score calls that ended
    uploads,            \* number of upload_invoice requests received
    decisions,          \* per vendor, the invoices upload_invoice has decided
    fraud_result,       \* a FraudDetectionResult object
    validation          \* the last call of a validation function and its return

approval_vars == <<approvals, APPROVERS, email_enabled, attempts, last_attempt>>

\* the tables the upload pipeline writes besides invoice_approvals
store_vars == <<vendor_scores, price_history, invoice_line_items, invoices>>

vars == <<approvals, APPROVERS, email_enabled, attempts, last_attempt, clock,
          result, sess, history, vendor_scores, price_history,
          invoice_line_items, invoices, ledger_calls, uploads, decisions, fraud_result, validation>>

(***************************************************************************)
(* create_approval_request                                                 *)
(***************************************************************************)
\* the local required_level of create_approval_request
required_level(total_amount, fraud_score) ==
    LET by_amount ==
            IF Truthy(total_amount)
            THEN IF total_amount > APPROVAL_LEVELS[3].threshold THEN 3
                 ELSE IF total_amount > APPROVAL_LEVELS[2].threshold THEN 2
                 ELSE 1
            ELSE 1
    IN  IF Truthy(fraud_score) /\ fraud_score >= 70 THEN Max(by_amount, 3)
        ELSE IF Truthy(fraud_score) /\ fraud_score >= 40 THEN Max(by_amount, 2)
        ELSE by_amount

initial_level_required(total_amount, fraud_score) ==
    required_level(total_amount, fraud_score)

\* the level the InvoiceApproval row is constructed with
initial_level(total_amount, fraud_score) == 1

\* InvoiceApproval(...) as create_approval_request constructs and commits it
new_approval(invoice_id, vendor_name, country, total_amount, fraud_score, now) ==
    [invoice_id       |-> invoice_id,
     invoice_db_id    |-> NULL,
     status           |-> "pending",
     level            |-> initial_level(total_amount, fraud_score),
     current_approver |-> APPROVERS[1].name,
     vendor_name      |-> vendor_name,
     country          |-> country,
     total_amount     |-> total_amount,
     fraud_score      |-> fraud_score,
     created_at       |-> now,
     updated_at       |-> now,
     approved_at      |-> NULL,
     approved_by      |-> None,
     rejection_reason |-> None,
     comments         |-> <<>>,
     email_sent       |-> FALSE,
     email_sent_at    |-> NULL]

(***************************************************************************)
(* send_approval_notification                                              *)
(***************************************************************************)
\* How a call can end: "disabled" (transport off, returns False), "sent"
\* (returns True) or "error" (an exception inside the try, returns False).
\* Formatting a None amount with ':,.2f' raises, so that call always errors.
notification_outcomes(approval) ==
    IF ~email_enabled THEN {"disabled"}
    ELSE IF approval.total_amount = NULL THEN {"error"}
    ELSE {"sent", "error"}

\* the attempt a call of send_approval_notification(approval, to_email) makes
notification(approval_id, approval, to_email, outcome) ==
    [approval_id |-> approval_id,
     level       |-> approval.level,
     to          |-> to_email,
     outcome     |-> outcome]

after_notification_undo(approval, outcome, now) ==
    IF outcome = "sent" \/ approval.level = 1 THEN approval
    ELSE [approval EXCEPT !.level = @ - 1]

\* the row after send_approval_notification returned
after_notification(approval, outcome, now) == approval

\* the address create_approval_request notifies
creation_recipient == APPROVERS[1].email

create_approval_request(invoice_id, vendor_name, country, total_amount, fraud_score) ==
    /\ LET id  == Len(approvals) + 1
           row == new_approval(invoice_id, vendor_name, country,
                               total_amount, fraud_score, clock)
       IN  \E outcome \in notification_outcomes(row) :
             /\ approvals' = Append(approvals, after_notification(row, outcome, clock))
             /\ attempts' = attempts + 1
             /\ last_attempt' = notification(id, row, creation_recipient, outcome)
             /\ result' = [op  |-> "create_approval_request",
                           id  |-> id,
                           ret |-> [approval_id      |-> id,
                                    status           |-> row.status,
                                    level            |-> row.level,
                                    current_approver |-> row.current_approver]]
    /\ UNCHANGED <<APPROVERS, email_enabled, clock>>

(***************************************************************************)
(* approve_invoice                                                         *)
(***************************************************************************)
needs_higher_amount_only(approval) ==
    /\ Truthy(approval.total_amount)
    /\ \/ (approval.level < 3
            /\ approval.total_amount > APPROVAL_LEVELS[3].threshold)
       \/ (approval.level < 2
            /\ approval.total_amount > APPROVAL_LEVELS[2].threshold)

\* needs_higher, computed from the loaded row
needs_higher(approval) ==
    LET current_level == approval.level
        by_amount ==
            IF Truthy(approval.total_amount)
            THEN IF current_level < 3
                    /\ approval.total_amount > APPROVAL_LEVELS[3].threshold
                 THEN TRUE
                 ELSE current_level < 2
                      /\ approval.total_amount > APPROVAL_LEVELS[2].threshold
            ELSE FALSE
        by_fraud ==
            IF Truthy(approval.fraud_score)
            THEN IF current_level < 3 /\ approval.fraud_score >= 70
                 THEN TRUE
                 ELSE current_level < 2 /\ approval.fraud_score >= 40
            ELSE FALSE
    IN  by_amount \/ by_fraud

next_level_skip(current_level) == 3

\* next_level of the escalation branch
next_level(current_level) == current_level + 1

escalation_recipient_current(current_level) == APPROVERS[current_level].email

\* the address the escalation branch notifies
escalation_recipient(current_level) == APPROVERS[next_level(current_level)].email

\* one line of the comments column
comment_entry(approver_name, text, comments) ==
    <<approver_name, text, IF comments = None THEN "" ELSE comments>>

\* The attributes approve_invoice assigns on the row it loaded.
approve_assign(approval, approver_name, comments, now) ==
    IF needs_higher(approval)
    THEN [approval EXCEPT
            !.level = next_level(approval.level),
            !.current_approver = APPROVERS[next_level(approval.level)].name,
            !.comments = Append(approval.comments,
                                comment_entry(approver_name,
                                              <<"Approved at Level", approval.level>>,
                                              comments)),
            !.updated_at = now]
    ELSE [approval EXCEPT
            !.status = "approved",
            !.approved_by = approver_name,
            !.approved_at = now,
            !.comments = Append(approval.comments,
                                comment_entry(approver_name, <<"Final approval">>,
                                              comments)),
            !.updated_at = now]

\* what approve_invoice returns after its commit
approve_return(loaded, approver_name, now) ==
    IF needs_higher(loaded)
    THEN [success       |-> TRUE,
          status        |-> "escalated",
          next_approver |-> APPROVERS[next_level(loaded.level)].name]
    ELSE [success     |-> TRUE,
          status      |-> "approved",
          approved_at |-> now]

is_resolved_rejected_only(approval) == approval.status = "rejected"

\* the guard of approve_invoice and reject_invoice: the request left "pending"
is_resolved(approval) == approval.status # "pending"

not_found == [success |-> FALSE, error |-> "Approval request not found"]

already_resolved(approval) ==
    [success |-> FALSE, error |-> "Invoice already " \o approval.status]

approve_invoice(approval_id, approver_name, comments) ==
    LET call == "approve_invoice" IN
    /\ IF approval_id \notin 1..Len(approvals)
       THEN /\ result' = [op |-> call, id |-> approval_id, ret |-> not_found]
            /\ UNCHANGED <<approvals, attempts, last_attempt>>
       ELSE LET approval == approvals[approval_id] IN
            IF is_resolved(approval)
            THEN /\ result' = [op |-> call, id |-> approval_id, ret |-> already_resolved(approval)]
                 /\ UNCHANGED <<approvals, attempts, last_attempt>>
            ELSE LET updated == flush(approval, approval,
                                      approve_assign(approval, approver_name,
                                                     comments, clock))
                 IN  /\ result' = [op |-> call, id |-> approval_id,
                                   ret |-> approve_return(approval, approver_name, clock)]
                     /\ IF needs_higher(approval)
                        THEN \E outcome \in notification_outcomes(updated) :
                               /\ approvals' =
                                    [approvals EXCEPT ![approval_id] =
                                        after_notification(updated, outcome, clock)]
                               /\ attempts' = attempts + 1
                               /\ last_attempt' =
                                    notification(approval_id, updated,
                                                 escalation_recipient(approval.level),
                                                 outcome)
                        ELSE /\ approvals' = [approvals EXCEPT ![approval_id] = updated]
                             /\ UNCHANGED <<attempts, last_attempt>>
    /\ UNCHANGED <<APPROVERS, email_enabled, clock>>

(***************************************************************************)
(* reject_invoice                                                          *)
(***************************************************************************)
\* the attributes reject_invoice assigns on the row it loaded
reject_assign(approval, rejector_name, reason, now) ==
    [approval EXCEPT
        !.status = "rejected",
        !.approved_by = rejector_name,
        !.rejection_reason = reason,
        !.updated_at = now]

reject_return(rejector_name, reason) ==
    [success |-> TRUE,
     status  |-> "rejected",
     reason  |-> reason]

reject_invoice(approval_id, rejector_name, reason) ==
    LET call == "reject_invoice" IN
    /\ IF approval_id \notin 1..Len(approvals)
       THEN /\ result' = [op |-> call, id |-> approval_id, ret |-> not_found]
            /\ UNCHANGED approvals
       ELSE LET approval == approvals[approval_id] IN
            IF is_resolved(approval)
            THEN /\ result' = [op |-> call, id |-> approval_id, ret |-> already_resolved(approval)]
                 /\ UNCHANGED approvals
            ELSE /\ approvals' = [approvals EXCEPT ![approval_id] =
                                    flush(approval, approval,
                                          reject_assign(approval, rejector_name,
                                                        reason, clock))]
                 /\ result' = [op |-> call, id |-> approval_id, ret |-> reject_return(rejector_name, reason)]
    /\ UNCHANGED <<APPROVERS, email_enabled, attempts, last_attempt, clock>>

(***************************************************************************)
(* configure_email, set_approver_email, the clock                          *)
(***************************************************************************)
configure_email ==
    /\ email_enabled' = TRUE
    /\ result' = [op |-> "configure_email", id |-> NULL, ret |-> None]
    /\ UNCHANGED <<approvals, APPROVERS, attempts, last_attempt, clock>>

set_approver_email(level, contact) ==
    /\ APPROVERS' = IF level \in DOMAIN APPROVERS
                    THEN [APPROVERS EXCEPT ![level] = contact]
                    ELSE APPROVERS
    /\ result' = [op |-> "set_approver_email", id |-> NULL, ret |-> None]
    /\ UNCHANGED <<approvals, email_enabled, attempts, last_attempt, clock>>

\* time passes between two requests
Tick ==
    /\ clock < MaxTime
    /\ clock' = clock + 1
    /\ UNCHANGED <<approvals, APPROVERS, email_enabled, attempts, last_attempt, result>>

(***************************************************************************)
(* The approval workflow, one request at a time                            *)
(***************************************************************************)
Callers == 1..NumCallers

\* a request that is in no handler
idle == [pc |-> "idle"]

\* no update_vendor_score call has ended
no_calls == [n |-> 0, passed |-> 0, failed |-> 0, amount |-> 0]

\* FraudDetectionResult(): flags and warnings are kept as the lists of what
\* was added, a flag by its score impact
FraudDetectionResult == [fraud_score |-> 0, flags |-> <<>>, warnings |-> <<>>]

\* upload_invoice has decided no invoice
no_decisions == [accepted |-> 0, rejected |-> 0, amount |-> 0]

Init ==
    /\ sess = [p \in Callers |-> idle]
    /\ history = <<>>
    /\ approvals = <<>>
    /\ APPROVERS = DefaultApprovers
    /\ email_enabled = FALSE
    /\ attempts = 0
    /\ last_attempt = None
    /\ clock = 0
    /\ result = [op |-> "none", id |-> NULL, ret |-> None]
    /\ vendor_scores = <<>>
    /\ price_history = <<>>
    /\ invoice_line_items = <<>>
    /\ invoices = <<>>
    /\ ledger_calls = [v \in Vendors |-> no_calls]
    /\ uploads = 0
    /\ decisions = [v \in Vendors |-> no_decisions]
    /\ fraud_result = FraudDetectionResult
    /\ validation = [op |-> "none"]

Create ==
    \E invoice_id \in InvoiceIds, vendor_name \in Vendors, country \in Countries,
       total_amount \in Amounts, fraud_score \in FraudScores :
        /\ Len(approvals) < MaxApprovals
        /\ create_approval_request(invoice_id, vendor_name, country,
                                   total_amount, fraud_score)

Approve ==
    \E approval_id \in 1..(MaxApprovals + 1), approver_name \in Names,
       comments \in Comments :
        approve_invoice(approval_id, approver_name, comments)

Reject ==
    \E approval_id \in 1..(MaxApprovals + 1), rejector_name \in Names,
       reason \in Reasons :
        reject_invoice(approval_id, rejector_name, reason)

SetApprover ==
    \E level \in ApproverLevels, contact \in Contacts :
        set_approver_email(level, contact)

ApprovalNext ==
    \/ Create
    \/ Approve
    \/ Reject
    \/ configure_email
    \/ SetApprover
    \/ Tick

Next == ApprovalNext /\ UNCHANGED <<sess, history, store_vars, ledger_calls, uploads, decisions, fraud_result, validation>>

Spec == Init /\ [][Next]_vars

(***************************************************************************)
(* Concurrent approve_invoice and reject_invoice requests.  Each request   *)
(* has its own Session; a handler first queries the row, then computes on  *)
(* the loaded object, then commits; requests interleave between the query  *)
(* and the commit.                                                         *)
(***************************************************************************)
\* approve_invoice up to its commit: the query and the two early returns
approve_query(p, approval_id, approver_name, comments) ==
    /\ sess[p].pc = "idle"
    /\ IF approval_id \in 1..Len(approvals) /\ ~is_resolved(approvals[approval_id])
       THEN sess' = [sess EXCEPT ![p] =
                        [pc |-> "approve", id |-> approval_id,
                         name |-> approver_name, arg |-> comments,
                         loaded |-> approvals[approval_id]]]
       ELSE UNCHANGED sess
    /\ UNCHANGED <<approval_vars, clock, result, history>>

\* approve_invoice from its assignments on: the commit, the notification of
\* the escalation branch, and the return
approve_commit(p) ==
    /\ sess[p].pc = "approve"
    /\ LET s       == sess[p]
           updated == flush(approvals[s.id], s.loaded,
                            approve_assign(s.loaded, s.name, s.arg, clock))
       IN  /\ IF needs_higher(s.loaded)
              THEN \E outcome \in notification_outcomes(updated) :
                     /\ approvals' = [approvals EXCEPT ![s.id] =
                                        after_notification(updated, outcome, clock)]
                     /\ attempts' = attempts + 1
                     /\ last_attempt' =
                          notification(s.id, updated,
                                       escalation_recipient(s.loaded.level), outcome)
              ELSE /\ approvals' = [approvals EXCEPT ![s.id] = updated]
                   /\ UNCHANGED <<attempts, last_attempt>>
           /\ history' = Append(history,
                                [caller |-> p, id |-> s.id,
                                 status |-> approve_return(s.loaded, s.name, clock).status,
                                 level  |-> s.loaded.level])
    /\ sess' = [sess EXCEPT ![p] = idle]
    /\ UNCHANGED <<APPROVERS, email_enabled, clock, result>>

\* reject_invoice up to its commit
reject_query(p, approval_id, rejector_name, reason) ==
    /\ sess[p].pc = "idle"
    /\ IF approval_id \in 1..Len(approvals) /\ ~is_resolved(approvals[approval_id])
       THEN sess' = [sess EXCEPT ![p] =
                        [pc |-> "reject", id |-> approval_id,
                         name |-> rejector_name, arg |-> reason,
                         loaded |-> approvals[approval_id]]]
       ELSE UNCHANGED sess
    /\ UNCHANGED <<approval_vars, clock, result, history>>

\* reject_invoice from its assignments on
reject_commit(p) ==
    /\ sess[p].pc = "reject"
    /\ LET s == sess[p] IN
         /\ approvals' = [approvals EXCEPT ![s.id] =
                            flush(approvals[s.id], s.loaded,
                                  reject_assign(s.loaded, s.name, s.arg, clock))]
         /\ history' = Append(history,
                              [caller |-> p, id |-> s.id,
                               status |-> reject_return(s.name, s.arg).status,
                               level  |-> s.loaded.level])
    /\ sess' = [sess EXCEPT ![p] = idle]
    /\ UNCHANGED <<APPROVERS, email_enabled, attempts, last_attempt, clock, result>>

ApproveQuery ==
    \E p \in Callers, approval_id \in 1..(MaxApprovals + 1),
       approver_name \in Names, comments \in Comments :
        approve_query(p, approval_id, approver_name, comments)

ApproveCommit == \E p \in Callers : approve_commit(p)

RejectQuery ==
    \E p \in Callers, approval_id \in 1..(MaxApprovals + 1),
       rejector_name \in Names, reason \in Reasons :
        reject_query(p, approval_id, rejector_name, reason)

RejectCommit == \E p \in Callers : reject_commit(p)

NextConcurrent ==
    \/ Create /\ UNCHANGED <<sess, history, store_vars, ledger_calls, uploads, decisions, fraud_result, validation>>
    \/ ApproveQuery /\ UNCHANGED <<store_vars, ledger_calls, uploads, decisions, fraud_result, validation>>
    \/ ApproveCommit /\ UNCHANGED <<store_vars, ledger_calls, uploads, decisions, fraud_result, validation>>
    \/ RejectQuery /\ UNCHANGED <<store_vars, ledger_calls, uploads, decisions, fraud_result, validation>>
    \/ RejectCommit /\ UNCHANGED <<store_vars, ledger_calls, uploads, decisions, fraud_result, validation>>

SpecConcurrent == Init /\ [][NextConcurrent]_vars

(***************************************************************************)
(* The levels the specification derives from an amount and a fraud score   *)
(***************************************************************************)
(***************************************************************************)
(* The vendor ledger: update_vendor_score                                  *)
(***************************************************************************)
\* A risk score is the exact fraction <<numerator, denominator>>.
\* max(0, min(100, r))
clamp_risk(r) ==
    IF r[1] < 0 THEN <<0, 1>>
    ELSE IF r[1] > 100 * r[2] THEN <<100, 1>>
    ELSE r

\* .filter(VendorScore.vendor_name == vendor_name).first(): the id of the row,
\* 0 when there is none
vendor_row(vendor_name) ==
    LET ids == {i \in 1..Len(vendor_scores) :
                    vendor_scores[i].vendor_name = vendor_name}
    IN  IF ids = {} THEN 0
        ELSE CHOOSE i \in ids : \A j \in ids : i <= j

\* the VendorScore object update_vendor_score makes for an unknown vendor
new_vendor(vendor_name) ==
    [vendor_name            |-> vendor_name,
     total_invoices         |-> 0,
     successful_invoices    |-> 0,
     failed_invoices        |-> 0,
     total_amount_processed |-> 0,
     risk_score             |-> <<50, 1>>,
     last_invoice_date      |-> NULL]

vendor_assign_passed_amount_only(vendor, invoice_passed, amount, now) ==
    LET total      == vendor.total_invoices + 1
        successful == vendor.successful_invoices + (IF invoice_passed THEN 1 ELSE 0)
    IN  [vendor EXCEPT
            !.total_invoices         = total,
            !.successful_invoices    = successful,
            !.failed_invoices        = @ + (IF invoice_passed THEN 0 ELSE 1),
            !.total_amount_processed =
                @ + (IF invoice_passed /\ Truthy(amount) THEN amount ELSE 0),
            !.last_invoice_date      = now,
            !.risk_score             =
                clamp_risk(<<70 * (total - successful), total>>)]

vendor_assign_failed_uncounted(vendor, invoice_passed, amount, now) ==
    LET total      == vendor.total_invoices + 1
        successful == vendor.successful_invoices + (IF invoice_passed THEN 1 ELSE 0)
    IN  [vendor EXCEPT
            !.total_invoices         = total,
            !.successful_invoices    = successful,
            !.total_amount_processed = @ + (IF Truthy(amount) THEN amount ELSE 0),
            !.last_invoice_date      = now,
            !.risk_score             =
                IF total > 0
                THEN clamp_risk(<<70 * (total - successful), total>>)
                ELSE @]

\* the object after the assignments of update_vendor_score
vendor_assign(vendor, invoice_passed, amount, now) ==
    LET total      == vendor.total_invoices + 1
        successful == vendor.successful_invoices + (IF invoice_passed THEN 1 ELSE 0)
    IN  [vendor EXCEPT
            !.total_invoices         = total,
            !.successful_invoices    = successful,
            !.failed_invoices        = @ + (IF invoice_passed THEN 0 ELSE 1),
            !.total_amount_processed = @ + (IF Truthy(amount) THEN amount ELSE 0),
            !.last_invoice_date      = now,
            !.risk_score             =
                IF total > 0
                THEN clamp_risk(<<70 * (total - successful), total>>)
                ELSE @]

\* db.commit() raises IntegrityError: the INSERT of a new VendorScore meets a
\* stored row of the same vendor_name (the column is unique)
vendor_commit_raises(vendor_id, vendor_name) ==
    vendor_id = 0 /\ vendor_row(vendor_name) # 0

\* table vendor_scores after a db.commit() that did not raise
vendor_committed(vendor_id, loaded, assigned) ==
    IF vendor_id = 0 THEN Append(vendor_scores, assigned)
    ELSE [vendor_scores EXCEPT ![vendor_id] = flush(@, loaded, assigned)]

\* one more update_vendor_score call has ended
call_ended(calls, invoice_passed, amount) ==
    [n      |-> calls.n + 1,
     passed |-> calls.passed + (IF invoice_passed THEN 1 ELSE 0),
     failed |-> calls.failed + (IF invoice_passed THEN 0 ELSE 1),
     amount |-> calls.amount + (IF Truthy(amount) THEN amount ELSE 0)]

\* the update_vendor_score calls that have queried and not yet committed
calls_in_flight ==
    Cardinality({p \in Callers : sess[p].pc = "update_vendor_score"})

calls_ended(vendor_name) == ledger_calls[vendor_name].n

\* update_vendor_score up to its commit: the early return and the query
vendor_query(p, vendor_name, invoice_passed, amount) ==
    /\ sess[p].pc = "idle"
    /\ IF ~TruthyStr(vendor_name)
       THEN UNCHANGED sess
       ELSE LET id == vendor_row(vendor_name) IN
            sess' = [sess EXCEPT ![p] =
                        [pc             |-> "update_vendor_score",
                         vendor_name    |-> vendor_name,
                         invoice_passed |-> invoice_passed,
                         amount         |-> amount,
                         vendor_id      |-> id,
                         vendor         |-> IF id = 0 THEN new_vendor(vendor_name)
                                            ELSE vendor_scores[id]]]
    /\ UNCHANGED <<vendor_scores, ledger_calls>>

\* update_vendor_score from its assignments on: the commit, or the
\* IntegrityError it raises
vendor_commit(p) ==
    /\ sess[p].pc = "update_vendor_score"
    /\ LET s == sess[p] IN
         /\ vendor_scores' =
              IF vendor_commit_raises(s.vendor_id, s.vendor_name)
              THEN vendor_scores
              ELSE vendor_committed(s.vendor_id, s.vendor,
                       vendor_assign(s.vendor, s.invoice_passed, s.amount, clock))
         /\ ledger_calls' = [ledger_calls EXCEPT ![s.vendor_name] =
                                call_ended(@, s.invoice_passed, s.amount)]
    /\ sess' = [sess EXCEPT ![p] = idle]

VendorQuery ==
    \E p \in Callers, vendor_name \in Vendors \cup {None},
       invoice_passed \in BOOLEAN, amount \in LedgerAmounts :
        /\ TruthyStr(vendor_name) =>
              calls_in_flight + calls_ended(vendor_name) < MaxLedgerCalls
        /\ vendor_query(p, vendor_name, invoice_passed, amount)

VendorCommit == \E p \in Callers : vendor_commit(p)

ledger_frame ==
    UNCHANGED <<approval_vars, clock, result, history, price_history,
                invoice_line_items, invoices, uploads, decisions, fraud_result, validation>>

NextLedger ==
    \/ VendorQuery /\ ledger_frame
    \/ VendorCommit /\ ledger_frame

SpecLedger == Init /\ [][NextLedger]_vars

(***************************************************************************)
(* Fraud detection: what upload_invoice reads before it decides            *)
(***************************************************************************)
add_flag_uncapped(fraud_score, score_impact) == fraud_score + score_impact

\* FraudDetectionResult.add_flag
add_flag(fraud_score, score_impact) ==
    IF fraud_score + score_impact > 100 THEN 100 ELSE fraud_score + score_impact

\* a flag and the score impact it is added with
Flag(flag, score_impact) == [flag |-> flag, score_impact |-> score_impact]

\* the flags run_fraud_detection adds, each named by the words its message
\* starts with, and the score impacts it passes with them
Flags ==
    {Flag("DUPLICATE", 40), Flag("POTENTIAL DUPLICATE", 40),
     Flag("SUSPICIOUS", 15), Flag("HIGH PRICE ANOMALY", 20),
     Flag("HIGH RISK VENDOR", 25)}
    \cup {Flag("MISSING FIELDS", 10 * n) : n \in 1..3}
Warnings == {"PRICE WARNING", "moderate risk score", "Round number amount"}

\* FraudDetectionResult.add_flag, on the object
result_add_flag(r, flag, score_impact) ==
    [r EXCEPT !.flags = Append(@, Flag(flag, score_impact)),
              !.fraud_score = add_flag(@, score_impact)]

\* FraudDetectionResult.add_warning
result_add_warning(r, warning) == [r EXCEPT !.warnings = Append(@, warning)]

findings(r) == Len(r.flags) + Len(r.warnings)

fraud_result_frame ==
    UNCHANGED <<approval_vars, clock, result, sess, history, store_vars,
                ledger_calls, uploads, decisions, validation>>

AddFlag ==
    \E f \in Flags :
        /\ findings(fraud_result) < MaxFindings
        /\ fraud_result' = result_add_flag(fraud_result, f.flag, f.score_impact)
        /\ fraud_result_frame

AddWarning ==
    \E warning \in Warnings :
        /\ findings(fraud_result) < MaxFindings
        /\ fraud_result' = result_add_warning(fraud_result, warning)
        /\ fraud_result_frame

NextFraudResult == AddFlag \/ AddWarning

SpecFraudResult == Init /\ [][NextFraudResult]_vars

\* detect_duplicate_invoice: the reasons it returns, each named by the words
\* its message starts with
detect_duplicate_invoice(invoice, vendor_name, now) ==
    LET stored  == 1..Len(invoices)
        amount  == invoice.total_amount
        same_id == {i \in stored : invoices[i].invoice_id = invoice.invoice_id}
        matches == {i \in stored :
                        /\ invoices[i].total_amount = amount
                        /\ invoices[i].invoice_date = invoice.invoice_date
                        /\ TruthyStr(vendor_name) =>
                              invoices[i].vendor_name = vendor_name}
        similar == {i \in stored :
                        /\ invoices[i].vendor_name = vendor_name
                        /\ invoices[i].total_amount # NULL
                        /\ 100 * invoices[i].total_amount >= 99 * amount
                        /\ 100 * invoices[i].total_amount <= 101 * amount
                        /\ invoices[i].created_at >= now - 7}
    IN  (IF TruthyStr(invoice.invoice_id) /\ same_id # {}
         THEN <<"DUPLICATE">> ELSE <<>>)
        \o
        (IF Truthy(amount) /\ invoice.invoice_date # NULL /\ matches # {}
         THEN <<"POTENTIAL DUPLICATE">> ELSE <<>>)
        \o
        (IF Truthy(amount) /\ TruthyStr(vendor_name) /\ Cardinality(similar) > 2
         THEN <<"SUSPICIOUS">> ELSE <<>>)

\* "DUPLICATE:" in reason: the message that starts with "POTENTIAL
\* DUPLICATE:" holds these characters too
mentions_duplicate(reason) == reason \in {"DUPLICATE", "POTENTIAL DUPLICATE"}

duplicate_impact_by_prefix(reason) ==
    IF reason = "DUPLICATE" THEN 25
    ELSE IF reason = "POTENTIAL DUPLICATE" THEN 40
    ELSE 15

\* the score impact run_fraud_detection gives a duplicate reason
duplicate_impact(reason) ==
    IF mentions_duplicate(reason) THEN 40
    ELSE IF reason = "POTENTIAL DUPLICATE" THEN 25
    ELSE 15

\* product_description ILIKE '%' || description[:20] || '%', for descriptions
\* of which none holds the first 20 characters of another
description_matches(product_description, description) ==
    product_description = description

\* the price_history rows detect_price_anomaly compares an item with
price_samples(item) ==
    {i \in 1..Len(price_history) :
        IF TruthyStr(item.hs_code)
        THEN price_history[i].hs_code = item.hs_code
        ELSE description_matches(price_history[i].product_description,
                                 item.description)}

RECURSIVE sum_prices(_)
sum_prices(ids) ==
    IF ids = {} THEN 0
    ELSE LET i == CHOOSE i \in ids : TRUE
         IN  price_history[i].unit_price + sum_prices(ids \ {i})

\* detect_price_anomaly reports a HIGH PRICE ANOMALY for the item: at least 3
\* samples, and |unit_price - avg| / avg * 100 > 50 with avg = sum / count
high_price_anomaly(item) ==
    LET ids   == price_samples(item)
        count == Cardinality(ids)
        sum   == sum_prices(ids)
        diff  == item.unit_price * count - sum
    IN  /\ Truthy(item.unit_price)
        /\ item.unit_price > 0
        /\ count >= 3
        /\ 100 * (IF diff < 0 THEN -diff ELSE diff) > 50 * sum

get_vendor_risk_score_base_70(vendor_name, now) ==
    IF ~TruthyStr(vendor_name) \/ vendor_row(vendor_name) = 0 THEN <<50, 1>>
    ELSE LET vendor  == vendor_scores[vendor_row(vendor_name)]
             total   == vendor.total_invoices
             base    == IF total > 0
                        THEN <<70 * (total - vendor.successful_invoices), total>>
                        ELSE <<30, 1>>
             volume  == IF total < 5 THEN 15 ELSE IF total > 20 THEN -5 ELSE 0
             recency == IF /\ vendor.last_invoice_date # NULL
                           /\ now - vendor.last_invoice_date > 180
                        THEN 10 ELSE 0
         IN  clamp_risk(<<base[1] + (volume + recency) * base[2], base[2]>>)

get_vendor_risk_score_inclusive(vendor_name, now) ==
    IF ~TruthyStr(vendor_name) \/ vendor_row(vendor_name) = 0 THEN <<50, 1>>
    ELSE LET vendor  == vendor_scores[vendor_row(vendor_name)]
             total   == vendor.total_invoices
             base    == IF total > 0
                        THEN <<60 * (total - vendor.successful_invoices), total>>
                        ELSE <<30, 1>>
             volume  == IF total <= 5 THEN 15 ELSE IF total >= 20 THEN -5 ELSE 0
             recency == IF /\ vendor.last_invoice_date # NULL
                           /\ now - vendor.last_invoice_date > 180
                        THEN 10 ELSE 0
         IN  clamp_risk(<<base[1] + (volume + recency) * base[2], base[2]>>)

\* get_vendor_risk_score, as an exact fraction
get_vendor_risk_score(vendor_name, now) ==
    IF ~TruthyStr(vendor_name) \/ vendor_row(vendor_name) = 0 THEN <<50, 1>>
    ELSE LET vendor  == vendor_scores[vendor_row(vendor_name)]
             total   == vendor.total_invoices
             base    == IF total > 0
                        THEN <<60 * (total - vendor.successful_invoices), total>>
                        ELSE <<30, 1>>
             volume  == IF total < 5 THEN 15 ELSE IF total > 20 THEN -5 ELSE 0
             recency == IF /\ vendor.last_invoice_date # NULL
                           /\ now - vendor.last_invoice_date > 180
                        THEN 10 ELSE 0
         IN  clamp_risk(<<base[1] + (volume + recency) * base[2], base[2]>>)

\* the critical fields run_fraud_detection finds missing
missing_fields(invoice, vendor_name) ==
    (IF TruthyStr(invoice.invoice_id) THEN 0 ELSE 1)
    + (IF invoice.invoice_date # NULL THEN 0 ELSE 1)
    + (IF TruthyStr(vendor_name) THEN 0 ELSE 1)

\* detect_price_anomaly reports a PRICE WARNING for the item: a deviation
\* above 30 and not above 50
price_warning(item) ==
    LET ids   == price_samples(item)
        count == Cardinality(ids)
        sum   == sum_prices(ids)
        diff  == item.unit_price * count - sum
        dev   == IF diff < 0 THEN -diff ELSE diff
    IN  /\ Truthy(item.unit_price)
        /\ item.unit_price > 0
        /\ count >= 3
        /\ 100 * dev <= 50 * sum
        /\ 100 * dev > 30 * sum

fraud_flags_above_70(invoice, vendor_name, now) ==
    LET reasons == detect_duplicate_invoice(invoice, vendor_name, now)
        items   == invoice.line_items
        risk    == get_vendor_risk_score(vendor_name, now)
        missing == missing_fields(invoice, vendor_name)
    IN  [k \in 1..Len(reasons) |->
            Flag(reasons[k], duplicate_impact(reasons[k]))]
        \o
        [k \in 1..Cardinality({j \in 1..Len(items) : high_price_anomaly(items[j])})
            |-> Flag("HIGH PRICE ANOMALY", 20)]
        \o
        (IF risk[1] > 70 * risk[2]
         THEN <<Flag("HIGH RISK VENDOR", 25)>> ELSE <<>>)
        \o
        (IF missing > 0 THEN <<Flag("MISSING FIELDS", 10 * missing)>> ELSE <<>>)

\* the flags run_fraud_detection adds, in its order
fraud_flags(invoice, vendor_name, now) ==
    LET reasons == detect_duplicate_invoice(invoice, vendor_name, now)
        items   == invoice.line_items
        risk    == get_vendor_risk_score(vendor_name, now)
        missing == missing_fields(invoice, vendor_name)
    IN  [k \in 1..Len(reasons) |->
            Flag(reasons[k], duplicate_impact(reasons[k]))]
        \o
        [k \in 1..Cardinality({j \in 1..Len(items) : high_price_anomaly(items[j])})
            |-> Flag("HIGH PRICE ANOMALY", 20)]
        \o
        (IF risk[1] >= 70 * risk[2]
         THEN <<Flag("HIGH RISK VENDOR", 25)>> ELSE <<>>)
        \o
        (IF missing > 0 THEN <<Flag("MISSING FIELDS", 10 * missing)>> ELSE <<>>)

\* the warnings run_fraud_detection adds, in its order
fraud_warnings(invoice, vendor_name, now) ==
    LET items == invoice.line_items
        risk  == get_vendor_risk_score(vendor_name, now)
    IN  [k \in 1..Cardinality({j \in 1..Len(items) : price_warning(items[j])})
            |-> "PRICE WARNING"]
        \o
        (IF risk[1] < 70 * risk[2] /\ risk[1] >= 50 * risk[2]
         THEN <<"moderate risk score">> ELSE <<>>)
        \o
        (IF Truthy(invoice.total_amount) /\ invoice.total_amount >= 10000
         THEN <<"Round number amount">> ELSE <<>>)

RECURSIVE add_flags(_, _)
add_flags(r, flags) ==
    IF flags = <<>> THEN r
    ELSE add_flags(result_add_flag(r, Head(flags).flag, Head(flags).score_impact),
                   Tail(flags))

RECURSIVE add_warnings(_, _)
add_warnings(r, warnings) ==
    IF warnings = <<>> THEN r
    ELSE add_warnings(result_add_warning(r, Head(warnings)), Tail(warnings))

\* the FraudDetectionResult run_fraud_detection returns
fraud_detection_result(invoice, vendor_name, now) ==
    add_warnings(add_flags(FraudDetectionResult,
                           fraud_flags(invoice, vendor_name, now)),
                 fraud_warnings(invoice, vendor_name, now))

\* run_fraud_detection(...).fraud_score
run_fraud_detection(invoice, vendor_name, now) ==
    fraud_detection_result(invoice, vendor_name, now).fraud_score

\* FraudDetectionResult.is_high_risk
is_high_risk(fraud_score) == fraud_score >= 70

(***************************************************************************)
(* upload_invoice: evaluate, decide, persist.  One step per database round *)
(* trip that other requests can see or that sees them: the reads of the    *)
(* evaluation, the query of update_vendor_score, and each db.commit().     *)
(***************************************************************************)
\* the row crud.create_invoice adds
new_invoice(invoice, now) ==
    [invoice_id    |-> invoice.invoice_id,
     invoice_date  |-> invoice.invoice_date,
     customer_name |-> invoice.customer_name,
     total_amount  |-> invoice.total_amount,
     vendor_name   |-> None,
     created_at    |-> now]

\* the rows record_price_history adds: one per item whose unit price is
\* positive
RECURSIVE priced_items(_, _, _)
RECURSIVE priced_items_nonzero(_, _, _)
priced_items_nonzero(line_items, vendor_name, country) ==
    IF line_items = <<>> THEN <<>>
    ELSE LET item == Head(line_items)
             rest == priced_items_nonzero(Tail(line_items), vendor_name, country)
         IN  IF Truthy(item.unit_price)
             THEN <<[hs_code             |-> item.hs_code,
                     product_description |-> item.description,
                     unit_price          |-> item.unit_price,
                     vendor_name         |-> vendor_name,
                     country             |-> country]>> \o rest
             ELSE rest

priced_items(line_items, vendor_name, country) ==
    IF line_items = <<>> THEN <<>>
    ELSE LET item == Head(line_items)
             rest == priced_items(Tail(line_items), vendor_name, country)
         IN  IF Truthy(item.unit_price) /\ item.unit_price > 0
             THEN <<[hs_code             |-> item.hs_code,
                     product_description |-> item.description,
                     unit_price          |-> item.unit_price,
                     vendor_name         |-> vendor_name,
                     country             |-> country]>> \o rest
             ELSE rest

\* the rows upload_invoice adds to invoice_line_items
saved_items(invoice, country) ==
    [k \in 1..Len(invoice.line_items) |->
        [invoice_id  |-> invoice.invoice_id,
         description |-> invoice.line_items[k].description,
         hs_code     |-> invoice.line_items[k].hs_code,
         unit_price  |-> invoice.line_items[k].unit_price,
         country     |-> country]]

\* crud.create_invoice raises IntegrityError: invoices.invoice_id is unique
invoice_commit_raises(invoice) ==
    /\ invoice.invoice_id # None
    /\ \E i \in 1..Len(invoices) : invoices[i].invoice_id = invoice.invoice_id

\* invoice_data.invoice_id or f"INV-{file.filename}"
approval_invoice_id(invoice, filename) ==
    IF TruthyStr(invoice.invoice_id) THEN invoice.invoice_id
    ELSE "INV-" \o filename

\* what upload_invoice returns
upload_return(p, status) == [op |-> "upload_invoice", id |-> p, ret |-> status]

\* one more invoice of a vendor is decided: accepted when it has no violation
\* and its fraud score is not high, rejected otherwise
decided(d, invoice, violations) ==
    LET accept == ~violations
                  /\ ~is_high_risk(run_fraud_detection(invoice,
                                       invoice.customer_name, clock))
    IN  [accepted |-> d.accepted + (IF accept THEN 1 ELSE 0),
         rejected |-> d.rejected + (IF accept THEN 0 ELSE 1),
         amount   |-> d.amount + (IF invoice.total_amount # NULL
                                  THEN invoice.total_amount ELSE 0)]

\* from the request up to the decision: validation (its outcome is the input
\* violations), run_fraud_detection on the stored tables, and all_errors
upload_evaluate(p, filename, country, invoice, violations) ==
    /\ sess[p].pc = "idle"
    /\ LET vendor_name == invoice.customer_name
           fraud_score == run_fraud_detection(invoice, vendor_name, clock)
           all_errors  == violations \/ is_high_risk(fraud_score)
           id          == IF TruthyStr(vendor_name) THEN vendor_row(vendor_name)
                          ELSE 0
       IN  sess' = [sess EXCEPT ![p] =
                [pc          |-> IF TruthyStr(vendor_name) THEN "score"
                                 ELSE IF all_errors THEN "failed" ELSE "prices",
                 filename    |-> filename,
                 country     |-> country,
                 invoice     |-> invoice,
                 vendor_name |-> vendor_name,
                 fraud_score |-> fraud_score,
                 flags       |-> fraud_detection_result(invoice, vendor_name,
                                                        clock).flags,
                 passed      |-> ~all_errors,
                 vendor_id   |-> id,
                 vendor      |-> IF id = 0 THEN None ELSE vendor_scores[id],
                 broken      |-> FALSE]]
    /\ uploads' = uploads + 1
    /\ decisions' =
         IF TruthyStr(invoice.customer_name)
         THEN [decisions EXCEPT ![invoice.customer_name] =
                  decided(@, invoice, violations)]
         ELSE decisions
    /\ UNCHANGED <<approval_vars, clock, result, history, store_vars,
                   ledger_calls, fraud_result, validation>>

\* the return of a rejected invoice that names no vendor
upload_failed(p) ==
    /\ sess[p].pc = "failed"
    /\ sess' = [sess EXCEPT ![p] = idle]
    /\ result' = upload_return(p, "validation_failed")
    /\ UNCHANGED <<approval_vars, clock, history, store_vars, ledger_calls, uploads, decisions, fraud_result, validation>>

\* the query of update_vendor_score: a row this Session has loaded already
\* (get_vendor_risk_score read it) comes back as the loaded object
upload_vendor_query(p) ==
    /\ sess[p].pc = "score"
    /\ LET s  == sess[p]
           id == IF s.vendor_id # 0 THEN s.vendor_id ELSE vendor_row(s.vendor_name)
       IN  sess' = [sess EXCEPT ![p] =
                [s EXCEPT !.pc        = "score_commit",
                          !.vendor_id = id,
                          !.vendor    = IF s.vendor_id # 0 THEN s.vendor
                                        ELSE IF id = 0 THEN new_vendor(s.vendor_name)
                                        ELSE vendor_scores[id]]]
    /\ UNCHANGED <<approval_vars, clock, result, history, store_vars,
                   ledger_calls, uploads, decisions, fraud_result, validation>>

\* the commit of update_vendor_score; upload_invoice swallows what it raises,
\* and returns here when the invoice was rejected
upload_vendor_commit(p) ==
    /\ sess[p].pc = "score_commit"
    /\ LET s      == sess[p]
           raises == vendor_commit_raises(s.vendor_id, s.vendor_name)
       IN  /\ vendor_scores' =
                IF raises THEN vendor_scores
                ELSE vendor_committed(s.vendor_id, s.vendor,
                         vendor_assign(s.vendor, s.passed,
                             IF Truthy(s.invoice.total_amount)
                             THEN s.invoice.total_amount ELSE 0,
                             clock))
           /\ ledger_calls' = [ledger_calls EXCEPT ![s.vendor_name] =
                                  call_ended(@, s.passed, s.invoice.total_amount)]
           /\ IF s.passed
              THEN /\ sess' = [sess EXCEPT ![p] =
                                  [s EXCEPT !.pc = "prices", !.broken = raises]]
                   /\ UNCHANGED result
              ELSE /\ sess' = [sess EXCEPT ![p] = idle]
                   /\ result' = upload_return(p, "validation_failed")
    /\ UNCHANGED <<approval_vars, clock, history, price_history,
                   invoice_line_items, invoices, uploads, decisions, fraud_result, validation>>

\* record_price_history and its commit; a Session whose commit raised before
\* raises again, which upload_invoice swallows
upload_record_prices(p) ==
    /\ sess[p].pc = "prices"
    /\ LET s == sess[p] IN
         /\ price_history' =
              IF s.broken THEN price_history
              ELSE price_history \o priced_items(s.invoice.line_items,
                                                 s.vendor_name, s.country)
         /\ sess' = [sess EXCEPT ![p] = [s EXCEPT !.pc = "items"]]
    /\ UNCHANGED <<approval_vars, clock, result, history, vendor_scores,
                   invoice_line_items, invoices, ledger_calls, uploads, decisions, fraud_result, validation>>

\* the line items and their commit
upload_save_items(p) ==
    /\ sess[p].pc = "items"
    /\ LET s == sess[p] IN
         /\ invoice_line_items' =
              IF s.broken THEN invoice_line_items
              ELSE invoice_line_items \o saved_items(s.invoice, s.country)
         /\ sess' = [sess EXCEPT ![p] = [s EXCEPT !.pc = "invoice"]]
    /\ UNCHANGED <<approval_vars, clock, result, history, vendor_scores,
                   price_history, invoices, ledger_calls, uploads, decisions, fraud_result, validation>>

\* crud.create_invoice; what its commit raises ends the request with
\* "Database operation failed"
upload_create_invoice(p) ==
    /\ sess[p].pc = "invoice"
    /\ LET s == sess[p] IN
         IF s.broken \/ invoice_commit_raises(s.invoice)
         THEN /\ sess' = [sess EXCEPT ![p] = idle]
              /\ result' = upload_return(p, "error")
              /\ UNCHANGED invoices
         ELSE /\ invoices' = Append(invoices, new_invoice(s.invoice, clock))
              /\ sess' = [sess EXCEPT ![p] = [s EXCEPT !.pc = "approval"]]
              /\ UNCHANGED result
    /\ UNCHANGED <<approval_vars, clock, history, vendor_scores, price_history,
                   invoice_line_items, ledger_calls, uploads, decisions, fraud_result, validation>>

\* create_approval_request for the stored invoice, and the return
upload_create_approval(p) ==
    /\ sess[p].pc = "approval"
    /\ LET s == sess[p] IN
         create_approval_request(approval_invoice_id(s.invoice, s.filename),
                                 s.vendor_name, s.country,
                                 s.invoice.total_amount, s.fraud_score)
    /\ sess' = [sess EXCEPT ![p] = idle]
    /\ UNCHANGED <<history, store_vars, ledger_calls, uploads, decisions, fraud_result, validation>>

UploadEvaluate ==
    \E p \in Callers, filename \in Filenames, country \in Countries,
       invoice \in UploadedInvoices, violations \in BOOLEAN :
        /\ uploads < MaxUploads
        /\ upload_evaluate(p, filename, country, invoice, violations)

UploadFailed == \E p \in Callers : upload_failed(p)
UploadVendorQuery == \E p \in Callers : upload_vendor_query(p)
UploadVendorCommit == \E p \in Callers : upload_vendor_commit(p)
UploadRecordPrices == \E p \in Callers : upload_record_prices(p)
UploadSaveItems == \E p \in Callers : upload_save_items(p)
UploadCreateInvoice == \E p \in Callers : upload_create_invoice(p)
UploadCreateApproval == \E p \in Callers : upload_create_approval(p)

NextUpload ==
    \/ UploadEvaluate
    \/ UploadFailed
    \/ UploadVendorQuery
    \/ UploadVendorCommit
    \/ UploadRecordPrices
    \/ UploadSaveItems
    \/ UploadCreateInvoice
    \/ UploadCreateApproval

SpecUpload == Init /\ [][NextUpload]_vars

(***************************************************************************)
(* upload_invoice, one request at a time: a request is received only when  *)
(* no other is being served.                                               *)
(***************************************************************************)
sequential_evaluate(received, max_uploads) ==
    \E p \in Callers, filename \in Filenames, country \in Countries,
       invoice \in received, violations \in BOOLEAN :
        /\ \A q \in Callers : sess[q].pc = "idle"
        /\ uploads < max_uploads
        /\ upload_evaluate(p, filename, country, invoice, violations)

SequentialEvaluate == sequential_evaluate(UploadedInvoices, MaxSequentialUploads)

NextPipeline ==
    \/ SequentialEvaluate
    \/ UploadFailed
    \/ UploadVendorQuery
    \/ UploadVendorCommit
    \/ UploadRecordPrices
    \/ UploadSaveItems
    \/ UploadCreateInvoice
    \/ UploadCreateApproval

SpecPipeline == Init /\ [][NextPipeline]_vars

\* the same, for invoices of one amount and one date
RepeatedEvaluate == sequential_evaluate(RepeatedInvoices, MaxRepeatedUploads)

NextRepeated ==
    \/ RepeatedEvaluate
    \/ UploadFailed
    \/ UploadVendorQuery
    \/ UploadVendorCommit
    \/ UploadRecordPrices
    \/ UploadSaveItems
    \/ UploadCreateInvoice
    \/ UploadCreateApproval

SpecRepeated == Init /\ [][NextRepeated]_vars

\* the same, for invoices that differ in their line items
PricedEvaluate == sequential_evaluate(PricedInvoices, MaxSequentialUploads)

NextPriced ==
    \/ PricedEvaluate
    \/ UploadFailed
    \/ UploadVendorQuery
    \/ UploadVendorCommit
    \/ UploadRecordPrices
    \/ UploadSaveItems
    \/ UploadCreateInvoice
    \/ UploadCreateApproval

SpecPriced == Init /\ [][NextPriced]_vars

(***************************************************************************)
(* Validation: country_rules.py, tax_rules.py, rule_engine.py.  Rates and  *)
(* tax percentages are in tenths of a percent (15.0% is 150), amounts are  *)
(* whole, so that every product subtotal * percentage / 100 has at most 2  *)
(* decimals and round(x, 2) changes nothing.                               *)
(***************************************************************************)
COUNTRY_RULES ==
    [russia |-> [banned_items     |-> <<"polythene", "plastic", "synthetic polymer">>,
                 restricted_items |-> <<"steel", "iron">>,
                 max_value_usd    |-> 2350000],
     china  |-> [banned_items     |-> <<"cotton", "textile">>,
                 restricted_items |-> <<"electronics">>,
                 max_value_usd    |-> 100000],
     usa    |-> [banned_items     |-> <<"certain_chemicals">>,
                 restricted_items |-> <<"food_products">>,
                 max_value_usd    |-> 200000],
     india  |-> [banned_items     |-> <<"gold", "silver">>,
                 restricted_items |-> <<"pharmaceuticals">>,
                 max_value_usd    |-> 75000]]

category_rate(category, rate, keywords) ==
    [category |-> category, rate |-> rate, keywords |-> keywords]

COUNTRY_TAX_RATES ==
    [russia |->
        [default_tax_rate |-> 200,
         hs_code_rates |->
            ("870321" :> 100) @@ ("870322" :> 100) @@ ("870323" :> 100) @@
            ("260111" :> 50) @@ ("260112" :> 50) @@ ("720851" :> 80) @@
            ("720852" :> 150) @@ ("300490" :> 500) @@ ("300410" :> 500) @@
            ("854231" :> 180) @@ ("847130" :> 180),
         category_rates |->
            <<category_rate("automotive", 100,
                  <<"car", "vehicle", "automobile", "passenger">>),
              category_rate("metals", 50, <<"iron ore", "ore fines">>),
              category_rate("steel", 150, <<"steel", "coil", "hot-rolled">>),
              category_rate("medicines", 500,
                  <<"medicine", "drug", "pharmaceutical", "antibiotic">>),
              category_rate("electronics", 180,
                  <<"electronic", "computer", "laptop", "processor">>),
              category_rate("food", 100,
                  <<"food", "grain", "meat", "vegetable">>)>>],
     china |->
        [default_tax_rate |-> 130,
         hs_code_rates |->
            ("870321" :> 250) @@ ("870322" :> 250) @@ ("260111" :> 30) @@
            ("720851" :> 130) @@ ("854231" :> 130) @@ ("520100" :> 160),
         category_rates |->
            <<category_rate("automotive", 250, <<"car", "vehicle", "automobile">>),
              category_rate("metals", 30, <<"iron ore", "ore">>),
              category_rate("steel", 130, <<"steel", "coil">>),
              category_rate("electronics", 130, <<"electronic", "computer">>),
              category_rate("textiles", 160, <<"cotton", "textile", "fabric">>)>>],
     usa |->
        [default_tax_rate |-> 0,
         hs_code_rates |->
            ("870321" :> 25) @@ ("260111" :> 0) @@ ("720851" :> 0) @@
            ("300490" :> 0),
         category_rates |->
            <<category_rate("automotive", 25, <<"car", "vehicle">>),
              category_rate("metals", 0, <<"iron", "steel", "metal">>),
              category_rate("medicines", 0, <<"medicine", "drug">>)>>],
     india |->
        [default_tax_rate |-> 180,
         hs_code_rates |->
            ("870321" :> 280) @@ ("260111" :> 50) @@ ("720851" :> 180) @@
            ("300490" :> 120) @@ ("710812" :> 30),
         category_rates |->
            <<category_rate("automotive", 280, <<"car", "vehicle", "automobile">>),
              category_rate("metals", 50, <<"iron ore", "ore">>),
              category_rate("steel", 180, <<"steel", "coil">>),
              category_rate("medicines", 120,
                  <<"medicine", "drug", "pharmaceutical">>),
              category_rate("gold", 30, <<"gold", "silver", "precious">>)>>]]

\* country.lower()
lower(country) ==
    CASE country = "Russia" -> "russia"
      [] OTHER -> country

\* description.lower(), for the descriptions of the model
lower_description(description) ==
    CASE description = "Steel Coils" -> "steel coils"
      [] description = "Plastic Sheets" -> "plastic sheets"
      [] description = "Polythene Plastic Film" -> "polythene plastic film"
      [] description = "Widgets" -> "widgets"
      [] description = "Steel Car Parts" -> "steel car parts"
      [] OTHER -> description

\* keyword in desc_lower: the words of the tables that are substrings of the
\* lowered descriptions of the model
contains(desc_lower, keyword) ==
    \/ desc_lower = "steel coils" /\ keyword \in {"steel", "coil"}
    \/ desc_lower = "plastic sheets" /\ keyword = "plastic"
    \/ desc_lower = "polythene plastic film" /\ keyword \in {"polythene", "plastic"}
    \/ desc_lower = "steel car parts" /\ keyword \in {"steel", "car"}

\* str(hs_code).strip(), for the codes of the model
strip(hs_code) ==
    CASE hs_code = " 720851 " -> "720851"
      [] hs_code = " " -> ""
      [] OTHER -> hs_code

get_product_tax_rate_last_category(country, hs_code, description) ==
    LET country_lower == lower(country) IN
    IF country_lower \notin DOMAIN COUNTRY_TAX_RATES THEN [found |-> FALSE]
    ELSE
      LET tax_rules  == COUNTRY_TAX_RATES[country_lower]
          categories == tax_rules.category_rates
          desc_lower == lower_description(description)
          hs_code_clean == strip(hs_code)
          matching   ==
              {c \in 1..Len(categories) :
                  \E k \in 1..Len(categories[c].keywords) :
                      contains(desc_lower, categories[c].keywords[k])}
      IN  IF TruthyStr(hs_code) /\ hs_code_clean \in DOMAIN tax_rules.hs_code_rates
          THEN [found  |-> TRUE,
                rate   |-> tax_rules.hs_code_rates[hs_code_clean],
                source |-> "HS Code"]
          ELSE IF TruthyStr(description) /\ matching # {}
          THEN [found  |-> TRUE,
                rate   |-> categories[CHOOSE c \in matching :
                                         \A d \in matching : c >= d].rate,
                source |-> "Category"]
          ELSE [found |-> FALSE]

get_product_tax_rate_default(country, hs_code, description) ==
    LET country_lower == lower(country) IN
    IF country_lower \notin DOMAIN COUNTRY_TAX_RATES THEN [found |-> FALSE]
    ELSE
      LET tax_rules  == COUNTRY_TAX_RATES[country_lower]
          categories == tax_rules.category_rates
          desc_lower == lower_description(description)
          hs_code_clean == strip(hs_code)
          matching   ==
              {c \in 1..Len(categories) :
                  \E k \in 1..Len(categories[c].keywords) :
                      contains(desc_lower, categories[c].keywords[k])}
      IN  IF TruthyStr(hs_code) /\ hs_code_clean \in DOMAIN tax_rules.hs_code_rates
          THEN [found  |-> TRUE,
                rate   |-> tax_rules.hs_code_rates[hs_code_clean],
                source |-> "HS Code"]
          ELSE IF TruthyStr(description) /\ matching # {}
          THEN [found  |-> TRUE,
                rate   |-> categories[CHOOSE c \in matching :
                                         \A d \in matching : c <= d].rate,
                source |-> "Category"]
          ELSE [found  |-> TRUE,
                rate   |-> tax_rules.default_tax_rate,
                source |-> "default"]

\* get_product_tax_rate
get_product_tax_rate(country, hs_code, description) ==
    LET country_lower == lower(country) IN
    IF country_lower \notin DOMAIN COUNTRY_TAX_RATES THEN [found |-> FALSE]
    ELSE
      LET tax_rules  == COUNTRY_TAX_RATES[country_lower]
          categories == tax_rules.category_rates
          desc_lower == lower_description(description)
          hs_code_clean == strip(hs_code)
          matching   ==
              {c \in 1..Len(categories) :
                  \E k \in 1..Len(categories[c].keywords) :
                      contains(desc_lower, categories[c].keywords[k])}
      IN  IF TruthyStr(hs_code) /\ hs_code_clean \in DOMAIN tax_rules.hs_code_rates
          THEN [found  |-> TRUE,
                rate   |-> tax_rules.hs_code_rates[hs_code_clean],
                source |-> "HS Code"]
          ELSE IF TruthyStr(description) /\ matching # {}
          THEN [found  |-> TRUE,
                rate   |-> categories[CHOOSE c \in matching :
                                         \A d \in matching : c <= d].rate,
                source |-> "Category"]
          ELSE [found |-> FALSE]

\* an error message: what it starts with, the item it is about (0: the
\* invoice), and the two values it cites
Error(error, item, expected, found) ==
    [error |-> error, item |-> item, expected |-> expected, found |-> found]

Abs(x) == IF x < 0 THEN -x ELSE x

\* validate_product_tax_rates: the errors of the k-th line item
item_tax_errors(invoice, country, k) ==
    LET item          == invoice.line_items[k]
        item_tax_pct  == item.tax_percentage
        item_subtotal == item.subtotal
        item_total    == item.total
        tax_info      == get_product_tax_rate(country, item.hs_code,
                                              item.description)
    IN  (IF ~tax_info.found
         THEN <<Error("TAX INFO MISSING", k, NULL, NULL)>>
         ELSE IF item_tax_pct # NULL /\ item_tax_pct # tax_info.rate
         THEN <<Error("TAX RATE ERROR", k, tax_info.rate, item_tax_pct)>>
         ELSE <<>>)
        \o
        (IF /\ item_subtotal # NULL /\ item_tax_pct # NULL /\ item_total # NULL
            /\ Abs(1000 * item_subtotal + item_subtotal * item_tax_pct
                   - 1000 * item_total) > 10
         THEN <<Error("ITEM TOTAL ERROR", k, NULL, item_total)>>
         ELSE <<>>)

RECURSIVE items_tax_errors(_, _, _)
items_tax_errors(invoice, country, k) ==
    IF k > Len(invoice.line_items) THEN <<>>
    ELSE item_tax_errors(invoice, country, k)
         \o items_tax_errors(invoice, country, k + 1)

RECURSIVE calculated_grand_total(_)
calculated_grand_total(line_items) ==
    IF line_items = <<>> THEN 0
    ELSE (IF Truthy(Head(line_items).total) THEN Head(line_items).total ELSE 0)
         + calculated_grand_total(Tail(line_items))

validate_product_tax_rates(invoice, country) ==
    IF lower(country) \notin DOMAIN COUNTRY_TAX_RATES
    THEN <<Error("TAX ERROR", 0, NULL, NULL)>>
    ELSE LET grand == calculated_grand_total(invoice.line_items) IN
         items_tax_errors(invoice, country, 1)
         \o
         (IF /\ Truthy(invoice.total_amount)
             /\ grand > 0
             /\ grand # invoice.total_amount
          THEN <<Error("GRAND TOTAL ERROR", 0, grand, invoice.total_amount)>>
          ELSE <<>>)

validate_tax(invoice) ==
    LET has_per_item_tax ==
            \E k \in 1..Len(invoice.line_items) :
                invoice.line_items[k].tax_percentage # NULL
    IN  IF has_per_item_tax THEN <<>>
        ELSE IF \/ ~Truthy(invoice.subtotal)
                \/ ~Truthy(invoice.tax_percentage)
                \/ ~Truthy(invoice.tax_amount)
        THEN <<Error("Missing required fields", 0, NULL, NULL)>>
        ELSE
          (IF Abs(invoice.subtotal * invoice.tax_percentage
                  - 1000 * invoice.tax_amount) > 10
           THEN <<Error("Tax calculation mismatch", 0, NULL, invoice.tax_amount)>>
           ELSE <<>>)
          \o
          (IF invoice.tax_percentage < 0 \/ invoice.tax_percentage > 500
           THEN <<Error("Tax rate", 0, NULL, invoice.tax_percentage)>>
           ELSE <<>>)

\* the BANNED errors of the k-th line item, one per banned word it holds
RECURSIVE banned_errors(_, _, _)
banned_errors(item_desc, banned_items, k) ==
    IF banned_items = <<>> THEN <<>>
    ELSE (IF contains(item_desc, Head(banned_items))
          THEN <<Error("BANNED", k, NULL, NULL)>> ELSE <<>>)
         \o banned_errors(item_desc, Tail(banned_items), k)

RECURSIVE items_banned_errors(_, _, _)
items_banned_errors(line_items, banned_items, k) ==
    IF k > Len(line_items) THEN <<>>
    ELSE banned_errors(lower_description(line_items[k].description),
                       banned_items, k)
         \o items_banned_errors(line_items, banned_items, k + 1)

value_limit_errors_inclusive(total_amount, max_value_usd) ==
    IF Truthy(total_amount) /\ total_amount >= max_value_usd
    THEN <<Error("VALUE LIMIT EXCEEDED", 0, max_value_usd, total_amount)>>
    ELSE <<>>

\* the value limit check of validate_country_rules
value_limit_errors(total_amount, max_value_usd) ==
    IF Truthy(total_amount) /\ total_amount > max_value_usd
    THEN <<Error("VALUE LIMIT EXCEEDED", 0, max_value_usd, total_amount)>>
    ELSE <<>>

validate_country_rules(invoice_data, country) ==
    LET country_lower == lower(country) IN
    IF country_lower \notin DOMAIN COUNTRY_RULES THEN <<>>
    ELSE LET rules  == COUNTRY_RULES[country_lower]
             errors == items_banned_errors(invoice_data.line_items,
                                           rules.banned_items, 1)
         IN  errors \o value_limit_errors(invoice_data.total_amount,
                                          rules.max_value_usd)

validate_invoice(invoice_data, country) ==
    validate_tax(invoice_data) \o validate_country_rules(invoice_data, country)

\* line items as the validation functions read them
MaxItems == 2
ItemDescriptions == {"Steel Coils", "Plastic Sheets", "Widgets"}
TaxedItems ==
    [description    : {"Steel Coils", "Widgets"},
     hs_code        : {None, "720851"},
     tax_percentage : {NULL, 80, 150},
     subtotal       : {100},
     unit_price     : {100},
     total          : {115}]
ValidationCountries == {"russia", "Russia", "china", "mars"}

RECURSIVE Lists(_, _)
Lists(S, n) ==
    IF n = 0 THEN {<<>>}
    ELSE Lists(S, n - 1) \cup
         {Append(l, x) : l \in {m \in Lists(S, n - 1) : Len(m) = n - 1}, x \in S}

TaxedInvoices ==
    [invoice_id     : {None},
     invoice_date   : Dates,
     customer_name  : {"Acme"},
     total_amount   : {NULL, 0, 115, 230},
     subtotal       : {100},
     tax_percentage : {150},
     tax_amount     : {15},
     line_items     : Lists(TaxedItems, MaxItems)]

\* invoices that differ in their value and in their banned items
ValuedItems ==
    [description    : ItemDescriptions \cup {"Polythene Plastic Film"},
     hs_code        : {None},
     tax_percentage : {NULL},
     subtotal       : {NULL},
     unit_price     : {100},
     total          : {115}]
ValuedInvoices ==
    [invoice_id     : {None},
     invoice_date   : Dates,
     customer_name  : {"Acme"},
     total_amount   : {NULL, 0, 100000, 100001, 2349999, 2350000, 2350001,
                       2500000},
     subtotal       : {100},
     tax_percentage : {150},
     tax_amount     : {15},
     line_items     : Lists(ValuedItems, MaxItems)]

validation_frame ==
    UNCHANGED <<approval_vars, clock, result, sess, history, store_vars,
                ledger_calls, uploads, decisions, fraud_result>>

called(op, invoice, country, errors) ==
    [op |-> op, invoice |-> invoice, country |-> country, errors |-> errors]

ValidateProductTaxRates ==
    \E invoice \in TaxedInvoices, country \in ValidationCountries :
        /\ validation.op = "none"
        /\ validation' = called("validate_product_tax_rates", invoice, country,
                                validate_product_tax_rates(invoice, country))
        /\ validation_frame

ValidateCountryRules ==
    \E invoice \in ValuedInvoices, country \in ValidationCountries :
        /\ validation.op = "none"
        /\ validation' = called("validate_country_rules", invoice, country,
                                validate_country_rules(invoice, country))
        /\ validation_frame

ValidateInvoice ==
    \E invoice \in ValuedInvoices, country \in ValidationCountries :
        /\ validation.op = "none"
        /\ validation' = called("validate_invoice", invoice, country,
                                validate_invoice(invoice, country))
        /\ validation_frame

\* invoices in the invoice-level tax format, with and without an item that
\* carries its own tax percentage
LegacyItems ==
    [description    : {"Steel Coils"},
     hs_code        : {None},
     tax_percentage : {NULL, 150},
     subtotal       : {NULL},
     unit_price     : {100},
     total          : {115}]
LegacyInvoices ==
    [invoice_id     : {None},
     invoice_date   : Dates,
     customer_name  : {"Acme"},
     total_amount   : {115},
     subtotal       : {NULL, 0, 100},
     tax_percentage : {NULL, -10, 0, 150, 500, 510},
     tax_amount     : {NULL, 0, 15, 50},
     line_items     : Lists(LegacyItems, 1)]

ValidateTax ==
    \E invoice \in LegacyInvoices :
        /\ validation.op = "none"
        /\ validation' = called("validate_tax", invoice, None,
                                validate_tax(invoice))
        /\ validation_frame

\* the arguments of get_product_tax_rate
RatedCountries == {"russia", "Russia", "china", "usa", "india", "mars"}
HsCodes == {None, "", " ", "720851", " 720851 ", "870321", "999999"}
RatedDescriptions ==
    {None, "", "Steel Coils", "Steel Car Parts", "Plastic Sheets", "Widgets"}

GetProductTaxRate ==
    \E country \in RatedCountries, hs_code \in HsCodes,
       description \in RatedDescriptions :
        /\ validation.op = "none"
        /\ validation' = [op          |-> "get_product_tax_rate",
                          country     |-> country,
                          hs_code     |-> hs_code,
                          description |-> description,
                          tax_info    |-> get_product_tax_rate(country, hs_code,
                                                               description)]
        /\ validation_frame

NextValidation ==
    \/ GetProductTaxRate
    \/ ValidateTax
    \/ ValidateProductTaxRates
    \/ ValidateCountryRules
    \/ ValidateInvoice

SpecValidation == Init /\ [][NextValidation]_vars

(***************************************************************************)
(* upload_invoice, one request at a time, with the violations the          *)
(* validation functions return for the parsed invoice; the errors of the   *)
(* certificate validation are an input.                                    *)
(***************************************************************************)
MaxValidatedUploads == 2
\* line items as InvoiceData holds them: LineItem has no hs_code, no
\* tax_percentage and no subtotal, so getattr gives None for them
ParsedItems ==
    [description    : {"Steel Coils", "Widgets"},
     hs_code        : {None},
     tax_percentage : {NULL},
     subtotal       : {NULL},
     unit_price     : {100},
     total          : {115}]
ParsedInvoices ==
    [invoice_id     : {None},
     invoice_date   : Dates,
     customer_name  : {None, "Acme"},
     total_amount   : {115, 230},
     subtotal       : {100},
     tax_percentage : {150},
     tax_amount     : {15},
     line_items     : Lists(ParsedItems, MaxItems)]
ParsedCountries == {"russia", "mars"}

\* all_errors without the fraud alerts
violations_found(invoice, country, certificate_validation_errors) ==
    \/ validate_invoice(invoice, country) # <<>>
    \/ certificate_validation_errors
    \/ validate_product_tax_rates(invoice, country) # <<>>

ValidatedEvaluate ==
    \E p \in Callers, filename \in Filenames, country \in ParsedCountries,
       invoice \in ParsedInvoices, certificate_validation_errors \in BOOLEAN :
        /\ \A q \in Callers : sess[q].pc = "idle"
        /\ uploads < MaxValidatedUploads
        /\ upload_evaluate(p, filename, country, invoice,
               violations_found(invoice, country, certificate_validation_errors))

NextValidated ==
    \/ ValidatedEvaluate
    \/ UploadFailed
    \/ UploadVendorQuery
    \/ UploadVendorCommit
    \/ UploadRecordPrices
    \/ UploadSaveItems
    \/ UploadCreateInvoice
    \/ UploadCreateApproval

SpecValidated == Init /\ [][NextValidated]_vars

(***************************************************************************)
(* The vendor ledger over a long history: update_vendor_score calls one    *)
(* after the other, days passing, and the reads of the risk score.         *)
(***************************************************************************)
\* update_vendor_score, from its query to its commit
update_vendor_score(vendor_name, invoice_passed, amount) ==
    IF ~TruthyStr(vendor_name)
    THEN UNCHANGED <<vendor_scores, ledger_calls>>
    ELSE LET id     == vendor_row(vendor_name)
             vendor == IF id = 0 THEN new_vendor(vendor_name)
                       ELSE vendor_scores[id]
         IN  /\ vendor_scores' =
                  vendor_committed(id, vendor,
                      vendor_assign(vendor, invoice_passed, amount, clock))
             /\ ledger_calls' = [ledger_calls EXCEPT ![vendor_name] =
                                    call_ended(@, invoice_passed, amount)]

UpdateVendorScore ==
    \E vendor_name \in Vendors \cup {None}, invoice_passed \in BOOLEAN :
        /\ TruthyStr(vendor_name) => calls_ended(vendor_name) < MaxVendorInvoices
        /\ update_vendor_score(vendor_name, invoice_passed, 100)
        /\ UNCHANGED <<approval_vars, clock, result, sess, history,
                       price_history, invoice_line_items, invoices, uploads,
                       decisions, fraud_result, validation>>

\* time passes: datetime.utcnow() is 180 or 181 days later
Elapse ==
    \E days \in {180, 181} :
        /\ clock + days <= MaxDays
        /\ clock' = clock + days
        /\ UNCHANGED <<approvals, APPROVERS, email_enabled, attempts,
                       last_attempt, result, sess, history, store_vars,
                       ledger_calls, uploads, decisions, fraud_result,
                       validation>>

returned(op, vendor_name, ret) == [op |-> op, vendor_name |-> vendor_name, ret |-> ret]

risk_frame ==
    UNCHANGED <<approval_vars, clock, sess, history, store_vars, ledger_calls,
                uploads, decisions, fraud_result, validation>>

GetVendorRiskScore ==
    \E vendor_name \in Vendors \cup {None} :
        /\ result' = returned("get_vendor_risk_score", vendor_name,
                              get_vendor_risk_score(vendor_name, clock))
        /\ risk_frame

\* run_fraud_detection of an invoice of the vendor
RunFraudDetection ==
    \E invoice \in RepeatedInvoices :
        /\ result' = returned("run_fraud_detection", invoice.customer_name,
                              fraud_detection_result(invoice,
                                  invoice.customer_name, clock))
        /\ risk_frame

NextVendorRisk ==
    \/ UpdateVendorScore
    \/ Elapse
    \/ GetVendorRiskScore
    \/ RunFraudDetection

SpecVendorRisk == Init /\ [][NextVendorRisk]_vars

ClaimAmountLevel(total_amount) ==
    IF total_amount > 100000 THEN 3 ELSE IF total_amount > 50000 THEN 2 ELSE 1

ClaimFraudLevel(fraud_score) ==
    IF fraud_score >= 70 THEN 3 ELSE IF fraud_score >= 40 THEN 2 ELSE 1

ClaimRequiredLevel(approval) ==
    Max(ClaimAmountLevel(approval.total_amount),
        ClaimFraudLevel(approval.fraud_score))

StoredIds == 1..Len(approvals)

C2_ApproveEscalatesOneLevelOrFinalizes ==
    [][/\ \A id \in StoredIds, name \in Names, c \in Comments :
            (approvals[id].status = "pending" /\ approve_invoice(id, name, c)) =>
                IF ClaimRequiredLevel(approvals[id]) > approvals[id].level
                THEN /\ approvals'[id].level = approvals[id].level + 1
                     /\ approvals'[id].current_approver
                            = APPROVERS[approvals[id].level + 1].name
                     /\ approvals'[id].status = "pending"
                ELSE /\ approvals'[id].status = "approved"
                     /\ approvals'[id].approved_by = name
                     /\ approvals'[id].approved_at = clock
                     /\ approvals'[id].level = approvals[id].level
       /\ \A id \in StoredIds : approvals'[id].level <= approvals[id].level + 1
      ]_vars

C2_Witness ==
    /\ result.op = "approve_invoice"
    /\ result.ret.success
    /\ result.ret.status = "escalated"
    /\ approvals[result.id].level = 2
    /\ approvals[result.id].status = "pending"
    /\ approvals[result.id].current_approver = "Dana"

(***************************************************************************)
(* C3                                                                      *)
(***************************************************************************)
\* C3: every approve_invoice call on a pending request appends one line to
\* its comment log, so the log counts the calls and names the level of each.
\* A request whose required level is 3 and that was never rejected is
\* approved by its third call and by no earlier one, and the levels the calls
\* saw are 1, 2, 3 in that order.
C3_EscalationBound ==
    \A id \in StoredIds :
        LET a == approvals[id] IN
        (ClaimRequiredLevel(a) = 3 /\ a.status # "rejected") =>
            /\ Len(a.comments) <= 3
            /\ \A k \in 1..Len(a.comments) :
                 a.comments[k][2] = IF k < 3 THEN <<"Approved at Level", k>>
                                    ELSE <<"Final approval">>
            /\ a.status = "pending" => a.level = Len(a.comments) + 1
            /\ a.status = "approved" => (Len(a.comments) = 3 /\ a.level = 3)

C3_Witness ==
    \E id \in StoredIds :
        /\ ClaimRequiredLevel(approvals[id]) = 3
        /\ approvals[id].status = "approved"
        /\ Len(approvals[id].comments) = 3

(***************************************************************************)
(* C4                                                                      *)
(***************************************************************************)
C4_Refused(id) ==
    /\ result'.ret = [success |-> FALSE,
                      error   |-> "Invoice already " \o approvals[id].status]
    /\ approvals' = approvals
    /\ attempts' = attempts
    /\ last_attempt' = last_attempt

\* C4: an approved or rejected request never changes again, and every
\* approve_invoice or reject_invoice call on it returns the failure
\* 'Invoice already <status>', changes no row and sends no notification.
C4_TerminalIsFinal ==
    [][\A id \in StoredIds :
            approvals[id].status \in {"approved", "rejected"} =>
                /\ approvals'[id] = approvals[id]
                /\ \A name \in Names :
                     /\ \A c \in Comments :
                          approve_invoice(id, name, c) => C4_Refused(id)
                     /\ \A reason \in Reasons :
                          reject_invoice(id, name, reason) => C4_Refused(id)
      ]_vars

C4_Witness ==
    /\ result.op = "reject_invoice"
    /\ result.ret = [success |-> FALSE, error |-> "Invoice already approved"]
    /\ approvals[result.id].status = "approved"
    /\ approvals[result.id].approved_at < clock

(***************************************************************************)
(* C5                                                                      *)
(***************************************************************************)
\* C5, as claimed: reject_invoice on a pending request with a non-empty
\* reason makes it rejected with the reason recorded, at level 1, 2 or 3;
\* with an empty or missing reason it leaves the request as it was, pending.
C5_RejectRequiresReason ==
    [][\A id \in StoredIds, name \in Names, reason \in Reasons :
            (approvals[id].status = "pending" /\ reject_invoice(id, name, reason)) =>
                IF reason \in {None, ""}
                THEN approvals'[id] = approvals[id]
                ELSE /\ approvals'[id].status = "rejected"
                     /\ approvals'[id].rejection_reason = reason
      ]_vars

(***************************************************************************)
(* C9                                                                      *)
(***************************************************************************)
C9_Notified(id) ==
    /\ attempts' = attempts + 1
    /\ last_attempt'.approval_id = id
    /\ last_attempt'.level = approvals'[id].level
    /\ last_attempt'.to = APPROVERS[approvals'[id].level].email

\* C9: a step that creates a request or escalates one makes exactly one
\* call of send_approval_notification, for that request and addressed to
\* the approver of its new current level; no other step makes a call, so no
\* request comes to wait at a level whose approver was not notified.
C9_OneNotificationPerNewLevel ==
    [][/\ Len(approvals') > Len(approvals) =>
            (Len(approvals') = Len(approvals) + 1 /\ C9_Notified(Len(approvals')))
       /\ \A id \in StoredIds :
            approvals'[id].level # approvals[id].level => C9_Notified(id)
       /\ (/\ Len(approvals') = Len(approvals)
           /\ \A id \in StoredIds : approvals'[id].level = approvals[id].level)
            => (attempts' = attempts /\ last_attempt' = last_attempt)
      ]_vars

C9_Witness ==
    /\ attempts = 3
    /\ last_attempt.level = 3
    /\ last_attempt.to = "compliance@company.com"
    /\ result.op = "approve_invoice"
    /\ approvals[last_attempt.approval_id].level = 3

(***************************************************************************)
(* C10                                                                     *)
(***************************************************************************)
\* C10, as claimed: once send_approval_notification was called for a
\* request, its row says so: email_sent is set and email_sent_at holds a
\* time.
C10_AttemptIsRecorded ==
    attempts > 0 =>
        /\ approvals[last_attempt.approval_id].email_sent
        /\ approvals[last_attempt.approval_id].email_sent_at # NULL

(***************************************************************************)
(* C6                                                                      *)
(***************************************************************************)
Finalizing == {"approved", "rejected"}

\* C6, as claimed: of the approve_invoice and reject_invoice calls on one
\* request that returned success, at most one finalized it (no
\* approved+approved, no approved+rejected), and no two escalated it from
\* the same level.
C6_MutuallyExclusive ==
    \A i, j \in 1..Len(history) :
        (i < j /\ history[i].id = history[j].id) =>
            /\ ~(history[i].status \in Finalizing /\ history[j].status \in Finalizing)
            /\ ~(/\ history[i].status = "escalated"
                 /\ history[j].status = "escalated"
                 /\ history[i].level = history[j].level)

(***************************************************************************)
(* C7                                                                      *)
(***************************************************************************)
\* C7, as claimed: once the update_vendor_score calls for a vendor have all
\* ended, the vendor has exactly one row, whose total_invoices is the number
\* of calls, whose successful_invoices and failed_invoices are the numbers
\* of passed and failed calls, and whose total_amount_processed is the sum
\* of the amounts.
C7_NoLostLedgerUpdate ==
    (\A p \in Callers : sess[p].pc = "idle") =>
        \A v \in Vendors :
            LET rows  == {i \in 1..Len(vendor_scores) :
                              vendor_scores[i].vendor_name = v}
                calls == ledger_calls[v]
            IN  /\ Cardinality(rows) <= 1
                /\ calls.n > 0 =>
                     \E i \in rows :
                        /\ vendor_scores[i].total_invoices = calls.n
                        /\ vendor_scores[i].successful_invoices = calls.passed
                        /\ vendor_scores[i].failed_invoices = calls.failed
                        /\ vendor_scores[i].total_amount_processed = calls.amount

(***************************************************************************)
(* C8                                                                      *)
(***************************************************************************)
\* C8, as claimed: in every committed state, a vendor's ledger counts no
\* more accepted invoices than the vendor has stored Invoice records and
\* approval requests, and every price_history row belongs to a vendor with
\* a stored Invoice record and an approval request.
C8_NoHalfAppliedDecision ==
    LET stored(v)    == {i \in 1..Len(invoices) : invoices[i].customer_name = v}
        requested(v) == {i \in 1..Len(approvals) : approvals[i].vendor_name = v}
    IN  /\ \A k \in 1..Len(vendor_scores) :
             LET row == vendor_scores[k] IN
             /\ row.successful_invoices <= Cardinality(stored(row.vendor_name))
             /\ row.successful_invoices <= Cardinality(requested(row.vendor_name))
        /\ \A k \in 1..Len(price_history) :
             /\ stored(price_history[k].vendor_name) # {}
             /\ requested(price_history[k].vendor_name) # {}

(***************************************************************************)
(* C11                                                                     *)
(***************************************************************************)
\* C11: a step whose call of send_approval_notification did not deliver
\* (transport disabled, or an error inside it) still commits its transition
\* and returns its normal result: the created request is stored pending and
\* returned, or the request stands one level higher and the call returns
\* success with status "escalated".
C11_FailedNotificationKeepsTransition ==
    [][(attempts' = attempts + 1 /\ last_attempt'.outcome # "sent") =>
          LET id == last_attempt'.approval_id IN
          /\ id \in 1..Len(approvals')
          /\ approvals'[id].status = "pending"
          /\ result'.id = id
          /\ IF Len(approvals') > Len(approvals)
             THEN /\ id = Len(approvals')
                  /\ result'.op = "create_approval_request"
                  /\ result'.ret.approval_id = id
                  /\ result'.ret.status = "pending"
             ELSE /\ approvals'[id].level = approvals[id].level + 1
                  /\ result'.op = "approve_invoice"
                  /\ result'.ret.success
                  /\ result'.ret.status = "escalated"
      ]_vars

C11_Witness ==
    /\ attempts = 2
    /\ last_attempt.outcome = "error"
    /\ result.op = "approve_invoice"
    /\ result.ret.status = "escalated"
    /\ approvals[result.id].level = 2

(***************************************************************************)
(* C12                                                                     *)
(***************************************************************************)
AllIdle == \A p \in Callers : sess[p].pc = "idle"

\* C12: with requests served one at a time, once every request has
\* returned, the ledger row of a vendor counts each decided invoice of that
\* vendor once: total_invoices is the number of decisions,
\* successful_invoices the accepted and failed_invoices the rejected ones,
\* total_amount_processed the sum of the amounts of both kinds, and the
\* stored risk score is (1 - successful/total) * 70.  A vendor with no
\* decided invoice has no row.
C12_LedgerUpdatedOncePerDecision ==
    AllIdle =>
        \A v \in Vendors :
            LET d     == decisions[v]
                total == d.accepted + d.rejected
                id    == vendor_row(v)
            IN  IF total = 0 THEN id = 0
                ELSE /\ id # 0
                     /\ vendor_scores[id].total_invoices = total
                     /\ vendor_scores[id].successful_invoices = d.accepted
                     /\ vendor_scores[id].failed_invoices = d.rejected
                     /\ vendor_scores[id].total_amount_processed = d.amount
                     /\ vendor_scores[id].risk_score[1] * total
                            = 70 * d.rejected * vendor_scores[id].risk_score[2]
                     /\ vendor_scores[id].last_invoice_date = clock

C12_Witness ==
    /\ AllIdle
    /\ decisions["Acme"].accepted = 1
    /\ decisions["Acme"].rejected = 2
    /\ vendor_scores[vendor_row("Acme")].total_invoices = 3
    /\ vendor_scores[vendor_row("Acme")].total_amount_processed = 360000
    /\ vendor_scores[vendor_row("Acme")].risk_score = <<140, 3>>

(***************************************************************************)
(* C13                                                                     *)
(***************************************************************************)
\* the line items whose unit price is present and positive
C13_Positive(line_items) ==
    SelectSeq(line_items, LAMBDA item : item.unit_price # NULL /\ item.unit_price > 0)

\* C13: no step changes or removes a stored price_history row; no step of a
\* rejected invoice adds one; and the price step of an accepted invoice
\* appends exactly one row per line item with a positive unit price, in
\* order, with that price, and none for an item whose unit price is
\* missing, zero or negative.
C13_PriceHistoryAppendOnly ==
    [][/\ Len(price_history') >= Len(price_history)
       /\ SubSeq(price_history', 1, Len(price_history)) = price_history
       /\ \A p \in Callers :
            (sess[p].pc # "idle" /\ sess'[p] # sess[p]) =>
                LET added == C13_Positive(sess[p].invoice.line_items) IN
                IF sess[p].passed /\ sess[p].pc = "prices"
                THEN /\ Len(price_history') = Len(price_history) + Len(added)
                     /\ \A k \in 1..Len(added) :
                          /\ price_history'[Len(price_history) + k].unit_price
                                = added[k].unit_price
                          /\ price_history'[Len(price_history) + k].product_description
                                = added[k].description
                ELSE price_history' = price_history
       /\ (\A p \in Callers : sess[p].pc = "idle") => price_history' = price_history
      ]_vars

C13_Witness ==
    /\ Len(price_history) = 3
    /\ price_history[2].unit_price = 100
    /\ price_history[3].unit_price = 400
    /\ \E p \in Callers :
         /\ sess[p].pc = "items"
         /\ Len(sess[p].invoice.line_items) = 2

(***************************************************************************)
(* C14                                                                     *)
(***************************************************************************)
RECURSIVE C14_Sum(_)
C14_Sum(flags) ==
    IF flags = <<>> THEN 0
    ELSE Head(flags).score_impact + C14_Sum(Tail(flags))

\* C14: the score of a FraudDetectionResult is always within [0,100] and is
\* the capped sum of the impacts of its flags, min(100, sum); so a further
\* flag never lowers it, and warnings do not enter it.
C14_ScoreIsCappedSum ==
    /\ fraud_result.fraud_score >= 0
    /\ fraud_result.fraud_score <= 100
    /\ fraud_result.fraud_score
          = (IF C14_Sum(fraud_result.flags) > 100 THEN 100
             ELSE C14_Sum(fraud_result.flags))

C14_Witness ==
    /\ fraud_result.fraud_score = 100
    /\ C14_Sum(fraud_result.flags) = 105
    /\ Len(fraud_result.flags) = 3
    /\ Len(fraud_result.warnings) = 1

(***************************************************************************)
(* C15..C17: the duplicate flags of an evaluated invoice                   *)
(***************************************************************************)
\* the request of caller p is received and evaluated in this step
Evaluated(p) == sess[p].pc = "idle" /\ sess'[p].pc # "idle"

\* what the k-th flag has added to the score
Contribution(flags, k) ==
    add_flags(FraudDetectionResult, SubSeq(flags, 1, k)).fraud_score
    - add_flags(FraudDetectionResult, SubSeq(flags, 1, k - 1)).fraud_score

\* the flags hold the named flag, added with the impact and adding it in full
Flagged(flags, flag, score_impact) ==
    \E k \in 1..Len(flags) :
        /\ flags[k].flag = flag
        /\ flags[k].score_impact = score_impact
        /\ Contribution(flags, k) = score_impact

\* C15: when an invoice is evaluated whose invoice_id is the invoice_id of a
\* stored invoice, its fraud result holds the exact-duplicate flag, and that
\* flag adds exactly 40 to the score.
C15_ExactDuplicateFlagged ==
    [][\A p \in Callers :
          (/\ Evaluated(p)
           /\ TruthyStr(sess'[p].invoice.invoice_id)
           /\ \E i \in 1..Len(invoices) :
                 invoices[i].invoice_id = sess'[p].invoice.invoice_id)
          => Flagged(sess'[p].flags, "DUPLICATE", 40)
      ]_vars

C15_Witness ==
    \E p \in Callers :
        /\ sess[p].pc # "idle"
        /\ sess[p].invoice.invoice_id = "INV-1"
        /\ \E i \in 1..Len(invoices) : invoices[i].invoice_id = "INV-1"
        /\ Flagged(sess[p].flags, "DUPLICATE", 40)

\* the stored invoices the pipeline stored for the vendor: the vendor of an
\* upload is the customer_name of its invoice
StoredFor(vendor_name) ==
    {i \in 1..Len(invoices) : invoices[i].customer_name = vendor_name}

\* C16: when an invoice is evaluated and an invoice of the same total amount
\* and the same date (and of the same vendor, when the vendor is known) is
\* stored, its fraud result holds the same-amount-same-date flag, and that
\* flag adds exactly 25 to the score.
C16_SameAmountSameDateFlagged ==
    [][\A p \in Callers :
          LET invoice == sess'[p].invoice
              vendor  == sess'[p].vendor_name
          IN  (/\ Evaluated(p)
               /\ Truthy(invoice.total_amount)
               /\ invoice.invoice_date # NULL
               /\ \E i \in 1..Len(invoices) :
                     /\ invoices[i].total_amount = invoice.total_amount
                     /\ invoices[i].invoice_date = invoice.invoice_date
                     /\ TruthyStr(vendor) => i \in StoredFor(vendor))
              => Flagged(sess'[p].flags, "POTENTIAL DUPLICATE", 25)
      ]_vars

\* the stored invoices of the vendor within the trailing 7 days whose amount
\* is within 1% of the amount
SimilarFor(vendor_name, amount, now) ==
    {i \in StoredFor(vendor_name) :
        /\ invoices[i].total_amount # NULL
        /\ 100 * invoices[i].total_amount >= 99 * amount
        /\ 100 * invoices[i].total_amount <= 101 * amount
        /\ invoices[i].created_at >= now - 7}

\* C17: when an invoice of a known vendor is evaluated, its fraud result
\* holds the velocity flag, adding 15 to the score, when more than 2 stored
\* invoices of that vendor within the trailing 7 days have an amount within
\* 1% of its amount, and does not hold it when 2 or fewer have.
C17_VelocityFlagged ==
    [][\A p \in Callers :
          LET invoice == sess'[p].invoice
              vendor  == sess'[p].vendor_name
          IN  (/\ Evaluated(p)
               /\ Truthy(invoice.total_amount)
               /\ TruthyStr(vendor))
              => IF Cardinality(SimilarFor(vendor, invoice.total_amount, clock)) > 2
                 THEN Flagged(sess'[p].flags, "SUSPICIOUS", 15)
                 ELSE \A k \in 1..Len(sess'[p].flags) :
                         sess'[p].flags[k].flag # "SUSPICIOUS"
      ]_vars

(***************************************************************************)
(* C18..C20: validation                                                    *)
(***************************************************************************)
\* the errors of the last call that start with the words and are about the
\* item
ErrorsAbout(error, k) ==
    {e \in 1..Len(validation.errors) :
        /\ validation.errors[e].error = error
        /\ validation.errors[e].item = k}

\* C18: for Russia, a line item 'Steel Coils' with HS code 720851 resolves to
\* the rate 15.0: validate_product_tax_rates returns no TAX RATE ERROR for it
\* when it declares 15.0, and exactly one, citing 15.0 expected and 8.0
\* found, when it declares 8.0.
C18_SteelCoilsResolveTo15 ==
    (validation.op = "validate_product_tax_rates"
     /\ lower(validation.country) = "russia")
    => \A k \in 1..Len(validation.invoice.line_items) :
          LET item == validation.invoice.line_items[k] IN
          (item.description = "Steel Coils" /\ item.hs_code = "720851")
          => /\ item.tax_percentage = 150
                  => ErrorsAbout("TAX RATE ERROR", k) = {}
             /\ item.tax_percentage = 80
                  => /\ Cardinality(ErrorsAbout("TAX RATE ERROR", k)) = 1
                     /\ \A e \in ErrorsAbout("TAX RATE ERROR", k) :
                           /\ validation.errors[e].expected = 150
                           /\ validation.errors[e].found = 80

\* C19: validate_country_rules, for a country that has rules, returns exactly
\* one VALUE LIMIT EXCEEDED error, citing both values, when the total amount
\* is above max_value_usd, and none when it is equal or below, whatever
\* BANNED errors it returns.
C19_OneValueLimitErrorIffAbove ==
    (validation.op = "validate_country_rules"
     /\ lower(validation.country) \in DOMAIN COUNTRY_RULES)
    => LET total == validation.invoice.total_amount
           max   == COUNTRY_RULES[lower(validation.country)].max_value_usd
           limit == ErrorsAbout("VALUE LIMIT EXCEEDED", 0)
       IN  IF total # NULL /\ total > max
           THEN /\ Cardinality(limit) = 1
                /\ \A e \in limit : /\ validation.errors[e].expected = max
                                    /\ validation.errors[e].found = total
           ELSE limit = {}

C19_Witness ==
    /\ validation.op = "validate_country_rules"
    /\ validation.country = "Russia"
    /\ validation.invoice.total_amount = 2500000
    /\ \E k \in 1..MaxItems : ErrorsAbout("BANNED", k) # {}
    /\ Cardinality(ErrorsAbout("VALUE LIMIT EXCEEDED", 0)) = 1

\* the country has no tax table
NoTaxTable(country) == lower(country) \notin DOMAIN COUNTRY_TAX_RATES

\* the item matches neither an HS code entry nor a category keyword of the
\* tax table of the country
Unmatched(country, item) ==
    LET tax_rules == COUNTRY_TAX_RATES[lower(country)] IN
    /\ item.hs_code \notin DOMAIN tax_rules.hs_code_rates
    /\ \A c \in 1..Len(tax_rules.category_rates) :
          \A k \in 1..Len(tax_rules.category_rates[c].keywords) :
              ~contains(lower_description(item.description),
                        tax_rules.category_rates[c].keywords[k])

\* C20: when an invoice is evaluated for a country without a tax table,
\* validate_product_tax_rates returns an error; when one of its items matches
\* neither an HS code entry nor a category keyword, get_product_tax_rate
\* resolves no rate for the item and validate_product_tax_rates returns an
\* error about it; in both cases the invoice is not accepted.
C20_TaxLookupFailsClosed ==
    [][\A p \in Callers :
          Evaluated(p) =>
            LET invoice == sess'[p].invoice
                country == sess'[p].country
                errors  == validate_product_tax_rates(invoice, country)
            IN  /\ NoTaxTable(country)
                     => /\ \E e \in 1..Len(errors) : errors[e].error = "TAX ERROR"
                        /\ ~sess'[p].passed
                /\ ~NoTaxTable(country)
                     => \A k \in 1..Len(invoice.line_items) :
                           Unmatched(country, invoice.line_items[k])
                           => /\ ~get_product_tax_rate(country,
                                     invoice.line_items[k].hs_code,
                                     invoice.line_items[k].description).found
                              /\ \E e \in 1..Len(errors) :
                                    /\ errors[e].error = "TAX INFO MISSING"
                                    /\ errors[e].item = k
                              /\ ~sess'[p].passed
      ]_vars

C20_Witness ==
    \E p \in Callers :
        /\ sess[p].pc # "idle"
        /\ sess[p].country = "russia"
        /\ \E k \in 1..Len(sess[p].invoice.line_items) :
              Unmatched("russia", sess[p].invoice.line_items[k])
        /\ validate_invoice(sess[p].invoice, "russia") = <<>>
        /\ ~is_high_risk(sess[p].fraud_score)
        /\ ~sess[p].passed

(***************************************************************************)
(* C21..C23: tax validation                                                *)
(***************************************************************************)
\* C21: validate_tax, for an invoice none of whose line items carries a tax
\* percentage and that supplies subtotal, tax percentage and tax amount,
\* returns a tax mismatch error iff subtotal * percentage / 100 and the tax
\* amount differ by more than 0.01, a tax rate error iff the percentage is
\* outside [0, 50], and no other error; for an invoice one of whose line
\* items carries a tax percentage it returns no error.
C21_InvoiceLevelTaxChecks ==
    validation.op = "validate_tax" =>
      LET invoice  == validation.invoice
          per_item == \E k \in 1..Len(invoice.line_items) :
                         invoice.line_items[k].tax_percentage # NULL
          others   == {e \in 1..Len(validation.errors) :
                         validation.errors[e].error
                            \notin {"Tax calculation mismatch", "Tax rate"}}
      IN  /\ per_item => validation.errors = <<>>
          /\ (/\ ~per_item
              /\ invoice.subtotal # NULL
              /\ invoice.tax_percentage # NULL
              /\ invoice.tax_amount # NULL)
             => /\ Cardinality(ErrorsAbout("Tax calculation mismatch", 0))
                     = (IF Abs(invoice.subtotal * invoice.tax_percentage
                               - 1000 * invoice.tax_amount) > 10
                        THEN 1 ELSE 0)
                /\ Cardinality(ErrorsAbout("Tax rate", 0))
                     = (IF invoice.tax_percentage < 0
                           \/ invoice.tax_percentage > 500
                        THEN 1 ELSE 0)
                /\ others = {}

\* the category of the tax table of the country has a keyword that is a
\* substring of the lower-cased description
CategoryMatches(country, c, description) ==
    LET category == COUNTRY_TAX_RATES[lower(country)].category_rates[c] IN
    /\ TruthyStr(description)
    /\ \E k \in 1..Len(category.keywords) :
          contains(lower_description(description), category.keywords[k])

\* C22: get_product_tax_rate, for a country that has a tax table: when the
\* HS code (without surrounding blanks) is a key of the HS table it returns
\* the rate of that key, whatever the description matches; otherwise, when
\* a category matches the description, the rate of the first such category
\* in declaration order; otherwise not found.
C22_StrictPriority ==
    (validation.op = "get_product_tax_rate" /\ ~NoTaxTable(validation.country))
    => LET tax_rules == COUNTRY_TAX_RATES[lower(validation.country)]
           code      == strip(validation.hs_code)
           n         == Len(tax_rules.category_rates)
           tax_info  == validation.tax_info
       IN  IF code \in DOMAIN tax_rules.hs_code_rates
           THEN tax_info.found /\ tax_info.rate = tax_rules.hs_code_rates[code]
           ELSE IF \E c \in 1..n :
                      CategoryMatches(validation.country, c, validation.description)
           THEN /\ tax_info.found
                /\ \E c \in 1..n :
                      /\ CategoryMatches(validation.country, c,
                                         validation.description)
                      /\ \A d \in 1..(c - 1) :
                            ~CategoryMatches(validation.country, d,
                                             validation.description)
                      /\ tax_info.rate = tax_rules.category_rates[c].rate
           ELSE ~tax_info.found

C22_Witness ==
    /\ validation.op = "get_product_tax_rate"
    /\ validation.country = "russia"
    /\ validation.hs_code = "720851"
    /\ validation.description = "Steel Car Parts"
    /\ CategoryMatches("russia", 1, "Steel Car Parts")
    /\ CategoryMatches("russia", 3, "Steel Car Parts")
    /\ validation.tax_info.found
    /\ validation.tax_info.rate = 80

\* C23: validate_product_tax_rates, for a country that has a tax table,
\* returns one TAX RATE ERROR for each item whose rate is resolved and whose
\* declared tax percentage differs from it, one ITEM TOTAL ERROR for each
\* item whose declared total differs from subtotal + subtotal * tax
\* percentage / 100, and, for an invoice that has line items and declares a
\* total, one GRAND TOTAL ERROR iff the sum of the item totals differs from
\* the declared total; and no such message otherwise.
C23_OneMessagePerBrokenInvariant ==
    (validation.op = "validate_product_tax_rates"
     /\ ~NoTaxTable(validation.country))
    => LET invoice == validation.invoice
           items   == invoice.line_items
       IN  /\ \A k \in 1..Len(items) :
                LET item     == items[k]
                    tax_info == get_product_tax_rate(validation.country,
                                    item.hs_code, item.description)
                IN  /\ Cardinality(ErrorsAbout("TAX RATE ERROR", k))
                         = (IF /\ tax_info.found
                               /\ item.tax_percentage # NULL
                               /\ item.tax_percentage # tax_info.rate
                            THEN 1 ELSE 0)
                    /\ Cardinality(ErrorsAbout("ITEM TOTAL ERROR", k))
                         = (IF /\ item.subtotal # NULL
                               /\ item.tax_percentage # NULL
                               /\ item.total # NULL
                               /\ Abs(1000 * item.subtotal
                                      + item.subtotal * item.tax_percentage
                                      - 1000 * item.total) > 10
                            THEN 1 ELSE 0)
           /\ (items # <<>> /\ invoice.total_amount # NULL)
                => Cardinality(ErrorsAbout("GRAND TOTAL ERROR", 0))
                     = (IF calculated_grand_total(items) # invoice.total_amount
                        THEN 1 ELSE 0)

(***************************************************************************)
(* C24, C25, C28, C30: the vendor risk                                     *)
(***************************************************************************)
\* two fractions are the same number
SameRisk(a, b) == a[1] * b[2] = b[1] * a[2]

\* a call of the function returns in this step
Returns(op) == result'.op = op /\ result' # result

\* the stored row of the vendor
Row(vendor_name) == vendor_scores[vendor_row(vendor_name)]

\* the last invoice of the vendor is more than 180 days old
Dormant(vendor_name) ==
    /\ Row(vendor_name).last_invoice_date # NULL
    /\ clock - Row(vendor_name).last_invoice_date > 180

\* (1 - successful/total) * 60, +15 below 5 invoices, -5 above 20, +10 when
\* dormant, times total
RiskTimesTotal(vendor_name) ==
    LET total == Row(vendor_name).total_invoices IN
    60 * (total - Row(vendor_name).successful_invoices)
    + total * ((IF total < 5 THEN 15 ELSE 0)
               + (IF total > 20 THEN -5 ELSE 0)
               + (IF Dormant(vendor_name) THEN 10 ELSE 0))

\* C24: get_vendor_risk_score returns 50 for an unnamed or unknown vendor,
\* and for a known vendor (1 - successful/total) * 60, +15 when total < 5,
\* -5 when total > 20, +10 when the last invoice is more than 180 days old,
\* clamped to [0, 100]; with 4 invoices the +15 is in, with 5 it is not,
\* with 20 there is no -5, with 21 there is.
C24_VendorRiskFormula ==
    [][\A vendor_name \in Vendors \cup {None} :
          (Returns("get_vendor_risk_score") /\ result'.vendor_name = vendor_name)
          => LET risk == result'.ret IN
             IF ~TruthyStr(vendor_name) \/ vendor_row(vendor_name) = 0
             THEN risk = <<50, 1>>
             ELSE LET total == Row(vendor_name).total_invoices
                      failed == total - Row(vendor_name).successful_invoices
                      num   == RiskTimesTotal(vendor_name)
                  IN  /\ num < 0 => SameRisk(risk, <<0, 1>>)
                      /\ num > 100 * total => SameRisk(risk, <<100, 1>>)
                      /\ (num >= 0 /\ num <= 100 * total)
                            => SameRisk(risk, <<num, total>>)
                      /\ ~Dormant(vendor_name) =>
                            /\ (total = 4 /\ failed = 0) => SameRisk(risk, <<15, 1>>)
                            /\ (total = 5 /\ failed = 0) => SameRisk(risk, <<0, 1>>)
                            /\ (total = 20 /\ failed = 20) => SameRisk(risk, <<60, 1>>)
                            /\ (total = 21 /\ failed = 21) => SameRisk(risk, <<55, 1>>)
      ]_vars

C24_Witness ==
    /\ result.op = "get_vendor_risk_score"
    /\ result.vendor_name = "Acme"
    /\ vendor_row("Acme") # 0
    /\ Row("Acme").total_invoices = 21
    /\ Row("Acme").successful_invoices = 0
    /\ ~Dormant("Acme")
    /\ SameRisk(result.ret, <<55, 1>>)


\* the places of the high-risk-vendor flag and of the moderate-risk warning
HighRiskFlags(r) == {k \in 1..Len(r.flags) : r.flags[k].flag = "HIGH RISK VENDOR"}
ModerateWarnings(r) == {k \in 1..Len(r.warnings) : r.warnings[k] = "moderate risk score"}

\* the risk of the vendor is at least the number
RiskAtLeast(vendor_name, n) ==
    LET risk == get_vendor_risk_score(vendor_name, clock) IN risk[1] >= n * risk[2]

\* C25: run_fraud_detection adds exactly one high-risk-vendor flag, with
\* score impact 25 (the score rises by 25, up to the cap of 100), and no
\* vendor warning when the vendor risk is >= 70; it adds the vendor warning
\* only, once, when the risk is in [50, 70), which is the case of every
\* unnamed or unknown vendor; it adds neither when the risk is below 50.
C25_VendorSubCheck ==
    [][\A vendor_name \in Vendors \cup {None} :
          (Returns("run_fraud_detection") /\ result'.vendor_name = vendor_name)
          => LET r == result'.ret
                 high == HighRiskFlags(r)
                 moderate == ModerateWarnings(r)
             IN  /\ RiskAtLeast(vendor_name, 70) =>
                        /\ Cardinality(high) = 1
                        /\ moderate = {}
                        /\ \A k \in high :
                              /\ r.flags[k].score_impact = 25
                              /\ LET before == add_flags(FraudDetectionResult,
                                                  SubSeq(r.flags, 1, k - 1)).fraud_score
                                 IN  Contribution(r.flags, k)
                                        = IF before > 75 THEN 100 - before ELSE 25
                 /\ (RiskAtLeast(vendor_name, 50) /\ ~RiskAtLeast(vendor_name, 70)) =>
                        /\ high = {}
                        /\ Cardinality(moderate) = 1
                 /\ ~RiskAtLeast(vendor_name, 50) => (high = {} /\ moderate = {})
                 /\ (~TruthyStr(vendor_name) \/ vendor_row(vendor_name) = 0) =>
                        (high = {} /\ Cardinality(moderate) = 1)
      ]_vars

\* a vendor whose risk is exactly 70 is flagged
C25_Witness ==
    /\ result.op = "run_fraud_detection"
    /\ result.vendor_name = "Acme"
    /\ vendor_row("Acme") # 0
    /\ SameRisk(get_vendor_risk_score("Acme", clock), <<70, 1>>)
    /\ Cardinality(HighRiskFlags(result.ret)) = 1
    /\ result.ret.fraud_score >= 25


\* C28: after any sequence of update_vendor_score calls every VendorScore
\* row has total_invoices = successful_invoices + failed_invoices, the three
\* counts are not negative and total_invoices is at least 1, the stored risk
\* score is in [0, 70], and no two rows have the same vendor name.
C28_LedgerRowInvariant ==
    /\ \A i \in 1..Len(vendor_scores) :
          LET vendor == vendor_scores[i] IN
          /\ vendor.total_invoices
                = vendor.successful_invoices + vendor.failed_invoices
          /\ vendor.successful_invoices >= 0
          /\ vendor.failed_invoices >= 0
          /\ vendor.total_invoices >= 1
          /\ vendor.risk_score[2] > 0
          /\ vendor.risk_score[1] >= 0
          /\ vendor.risk_score[1] <= 70 * vendor.risk_score[2]
    /\ \A i, j \in 1..Len(vendor_scores) :
          vendor_scores[i].vendor_name = vendor_scores[j].vendor_name => i = j

\* the vendor has one row after calls that passed and calls that failed
C28_Witness ==
    /\ calls_ended("Acme") >= 4
    /\ Len(vendor_scores) = 1
    /\ vendor_scores[1].vendor_name = "Acme"
    /\ vendor_scores[1].successful_invoices >= 2
    /\ vendor_scores[1].failed_invoices >= 2
    /\ vendor_scores[1].risk_score[1] > 0
    /\ vendor_scores[1].risk_score[1] < 70 * vendor_scores[1].risk_score[2]

\* the vendor has a row of 5 or more invoices, the last one at most 180 days
\* old
Established(vendor_name) ==
    /\ TruthyStr(vendor_name)
    /\ vendor_row(vendor_name) # 0
    /\ Row(vendor_name).total_invoices >= 5
    /\ Row(vendor_name).last_invoice_date # NULL
    /\ clock - Row(vendor_name).last_invoice_date <= 180

\* C30: for a known vendor with 5 or more invoices whose last invoice is at
\* most 180 days old, get_vendor_risk_score returns at most 60 (at most 55
\* above 20 invoices), so less than 70, and run_fraud_detection adds no
\* high-risk-vendor flag, even when every invoice of the vendor failed.
C30_EstablishedVendorNeverHighRisk ==
    [][\A vendor_name \in Vendors :
          Established(vendor_name) =>
             /\ (Returns("get_vendor_risk_score") /\ result'.vendor_name = vendor_name)
                   => /\ result'.ret[1] < 70 * result'.ret[2]
                      /\ result'.ret[1] <= 60 * result'.ret[2]
                      /\ Row(vendor_name).total_invoices > 20
                            => result'.ret[1] <= 55 * result'.ret[2]
             /\ (Returns("run_fraud_detection") /\ result'.vendor_name = vendor_name)
                   => HighRiskFlags(result'.ret) = {}
      ]_vars

\* run_fraud_detection has returned for a vendor all of whose 5 or more
\* invoices failed, with the vendor warning and without the vendor flag
C30_Witness ==
    /\ Established("Acme")
    /\ Row("Acme").failed_invoices = Row("Acme").total_invoices
    /\ result.op = "run_fraud_detection"
    /\ result.vendor_name = "Acme"
    /\ HighRiskFlags(result.ret) = {}
    /\ Cardinality(ModerateWarnings(result.ret)) = 1

(***************************************************************************)
(* C26                                                                     *)
(***************************************************************************)
\* C26: in every reachable state a request whose status is approved is at
\* level max(level implied by its amount, level implied by its fraud score):
\* no request with an amount above 50,000 or a fraud score of 40 or more is
\* approved at level 1, and none with an amount above 100,000 or a fraud
\* score of 70 or more is approved below level 3.
C26_ApprovedOnlyAtRequiredLevel ==
    \A id \in StoredIds :
        LET a == approvals[id] IN
        a.status = "approved" =>
            /\ a.level = ClaimRequiredLevel(a)
            /\ (a.total_amount > 50000 \/ a.fraud_score >= 40) => a.level # 1
            /\ (a.total_amount > 100000 \/ a.fraud_score >= 70) => a.level = 3

(***************************************************************************)
(* C27, C29: the decision of upload_invoice and what it stores             *)
(***************************************************************************)
\* the request of caller p ends in this step
Ended(p) == sess[p].pc # "idle" /\ sess'[p].pc = "idle"

\* one approval request is created in this step
ApprovalCreated == Len(approvals') = Len(approvals) + 1

\* C27: an invoice without rule, tax or certificate violations is accepted
\* exactly when its fraud score is below 70; the request of an accepted
\* invoice ends with an approval request created, the request of a rejected
\* one ends with validation_failed and without one; no approval request has a
\* fraud score of 70 or more.
C27_FraudGateAtSeventy ==
    [][/\ \A p \in Callers :
            /\ \A filename \in Filenames, country \in Countries,
                  invoice \in UploadedInvoices :
                  upload_evaluate(p, filename, country, invoice, FALSE)
                  => (sess'[p].passed <=> sess'[p].fraud_score < 70)
            /\ (Ended(p) /\ sess[p].passed) => ApprovalCreated
            /\ (Ended(p) /\ ~sess[p].passed) =>
                   /\ result' = upload_return(p, "validation_failed")
                   /\ approvals' = approvals
       /\ \A id \in 1..Len(approvals') : approvals'[id].fraud_score < 70
      ]_vars

\* the successes the vendor ledger counts for the vendor
Successes(vendor_name) ==
    IF vendor_row(vendor_name) = 0 THEN 0
    ELSE Row(vendor_name).successful_invoices

\* C29: when no upload_invoice request is being served, every success the
\* vendor ledger counts for a vendor has its stored Invoice and its one
\* approval request: the vendor has as many stored invoices and as many
\* approval requests as successes, also after a request whose invoice_id was
\* stored already.
C29_SuccessMeansStoredAndSubmitted ==
    (\A p \in Callers : sess[p].pc = "idle") =>
        \A vendor_name \in Vendors :
            /\ Successes(vendor_name)
                  = Cardinality({i \in 1..Len(invoices) :
                                    invoices[i].customer_name = vendor_name})
            /\ Successes(vendor_name)
                  = Cardinality({id \in 1..Len(approvals) :
                                    approvals[id].vendor_name = vendor_name})

====
